---- MODULE Spec2Model ----
(***************************************************************************)
(* A model of gtk2_ardour/port_group.cc: PortGroup (an ordered list of     *)
(* BundleRecords with its Changed / BundleChanged signals) and             *)
(* PortGroupList (an ordered list of PortGroups, the gather algorithm and  *)
(* the suspend/resume batching of its signals).                            *)
(*                                                                         *)
(* Signals are delivered synchronously (everything runs on the GUI         *)
(* thread), so one call of an operation, with every slot it triggers, is   *)
(* one action.  The variable emitted holds the signals fired during the    *)
(* last call, in firing order, and lastOp names that call.                 *)
(***************************************************************************)
EXTENDS Integers, Sequences, FiniteSets, Bags, TLC

VARIABLES
    _bundles,                    \* PortGroup::_bundles, one list per group
    undeleted,                   \* BundleRecords erased from a list but never deleted, per group
    _groups,                     \* PortGroupList::_groups
    _changed_connections,        \* per group: connections of its Changed to emit_changed
    _bundle_changed_connections, \* per group: connections of its BundleChanged
    _signals_suspended,
    _pending_change,
    _pending_bundle_change,
    emitted,                     \* observer: signals fired by the last call
    lastOp,                      \* observer: the last call and its arguments
    dups_used,                   \* observer: per group, add_bundle was called with allow_dups
    examined,                    \* observer: what each step of the last remove_duplicates saw
    window                       \* observer: the current / last suspension of the list

vars == << _bundles, undeleted, _groups, _changed_connections,
           _bundle_changed_connections, _signals_suspended, _pending_change,
           _pending_bundle_change, emitted, lastOp, dups_used, examined, window >>

groupVars == << _bundles, undeleted, dups_used >>

listVars == << _groups, _changed_connections, _bundle_changed_connections >>

(***************************************************************************)
(* Bounds of the model.                                                    *)
(***************************************************************************)
MaxRecords == 3      \* records in one group's list (SpecGroup)
MaxUndeleted == 2    \* erased-but-undeleted records kept per group
MaxListRecords == 1  \* records in one group's list (SpecList)
MaxGroups == 2       \* groups in the list (SpecList)
MaxConnections == 2  \* connections of one group's Changed to the list
MaxRequests == 3     \* emit_changed calls during one suspension

(***************************************************************************)
(* Small helpers.                                                          *)
(***************************************************************************)
Range(s) == { s[i] : i \in 1..Len(s) }

RECURSIVE SeqSum(_)
SeqSum(s) == IF s = <<>> THEN 0 ELSE Head(s) + SeqSum(Tail(s))

RemoveAt(s, i) == SubSeq(s, 1, i - 1) \o SubSeq(s, i + 1, Len(s))

CountIn(s, P(_)) == Cardinality({ i \in 1..Len(s) : P(s[i]) })

(***************************************************************************)
(* ARDOUR::DataType, ARDOUR::Bundle (libs/ardour, consumed).  A port name  *)
(* is a sequence of characters; a channel is a type and a port list; a     *)
(* bundle is an object with an identity (id).                              *)
(***************************************************************************)
AUDIO == "AUDIO"
MIDI == "MIDI"
NIL == "NIL"
DataTypes == << AUDIO, MIDI >>

Channel(n, t, ps) == [name |-> n, type |-> t, ports |-> ps]

Bundle(i, n, in, chs) == [id |-> i, name |-> n, ports_are_inputs |-> in, channels |-> chs]

n_total(b) == Len(b.channels)

n_of(b, t) == CountIn(b.channels, LAMBDA c : c.type = t)

channel_ports(b, k) == b.channels[k + 1].ports

PortSet(b) == UNION { Range(b.channels[k].ports) : k \in 1..Len(b.channels) }

\* two bundles are "same" if their port-name sets match regardless of order
has_same_ports(a, b) == PortSet(a) = PortSet(b)

\* the port is exposed as a singleton channel
offers_port_alone(b, p) == \E k \in 1..Len(b.channels) : b.channels[k].ports = << p >>

\* ChanCount comparison: "more channels"
nchannels_greater(a, b) == n_total(a) > n_total(b)

\* Bundle::Change payloads (bit flags; 0 is "no change")
NameChanged == 1
DirectionChanged == 16
Changes == { NameChanged, DirectionChanged }

(***************************************************************************)
(* Signals.                                                                *)
(***************************************************************************)
LIST == "PortGroupList"

Sig(s, k, c) == [src |-> s, sig |-> k, c |-> c]

Changed(s) == Sig(s, "Changed", 0)

BundleChanged(s, c) == Sig(s, "BundleChanged", c)

NChanged(out, s) == CountIn(out, LAMBDA e : e = Changed(s))

NBundleChanged(out, s) == CountIn(out, LAMBDA e : e.src = s /\ e.sig = "BundleChanged")

(***************************************************************************)
(* PortGroup                                                               *)
(***************************************************************************)
BundleRecord(b, iop, c, has_c) == [bundle |-> b, io |-> iop, colour |-> c, has_colour |-> has_c]

NoIO == 0
NoColour == 0

\* the scan of add_bundle_internal: first position i..end whose bundle has
\* the same ports as b, or one past the end
RECURSIVE SamePortsScan(_, _, _)
SamePortsScan(bl, b, i) ==
    IF i <= Len(bl) /\ has_same_ports(b, bl[i].bundle) = FALSE
    THEN SamePortsScan(bl, b, i + 1)
    ELSE i

\* faulty variant: the scan compares bundles by identity
add_bundle_internal_identity(bl, b, io, has_colour, colour, allow_dups) ==
    IF ~allow_dups /\ \E i \in 1..Len(bl) : bl[i].bundle.id = b.id
    THEN [bundles |-> bl, connected |-> 0, changed |-> 0]
    ELSE [bundles |-> Append(bl, BundleRecord(b, io, colour, has_colour)),
          connected |-> 1, changed |-> 1]

\* faulty variant: Changed is fired before the duplicate check returns
add_bundle_internal_notify(bl, b, io, has_colour, colour, allow_dups) ==
    IF ~allow_dups /\ SamePortsScan(bl, b, 1) # Len(bl) + 1
    THEN [bundles |-> bl, connected |-> 0, changed |-> 1]
    ELSE [bundles |-> Append(bl, BundleRecord(b, io, colour, has_colour)),
          connected |-> 1, changed |-> 1]

\* the new list, the number of connections made to b->Changed and the
\* number of times Changed () is fired
add_bundle_internal(bl, b, io, has_colour, colour, allow_dups) ==
    IF ~allow_dups /\ SamePortsScan(bl, b, 1) # Len(bl) + 1
    THEN [bundles |-> bl, connected |-> 0, changed |-> 0]
    ELSE [bundles |-> Append(bl, BundleRecord(b, io, colour, has_colour)),
          connected |-> 1, changed |-> 1]

RECURSIVE IdentityScan(_, _, _)
IdentityScan(bl, b, i) ==
    IF i <= Len(bl) /\ bl[i].bundle.id # b.id
    THEN IdentityScan(bl, b, i + 1)
    ELSE i

\* faulty variant: every record of the bundle is removed
remove_bundle_all(bl, b) ==
    LET keep == SelectSeq(bl, LAMBDA r : r.bundle.id # b.id)
    IN  [bundles |-> keep, changed |-> IF Len(keep) = Len(bl) THEN 0 ELSE 1]

remove_bundle(bl, b) ==
    LET i == IdentityScan(bl, b, 1)
    IN  IF i = Len(bl) + 1
        THEN [bundles |-> bl, changed |-> 0]
        ELSE [bundles |-> RemoveAt(bl, i), changed |-> 1]

has_port(bl, p) == \E i \in 1..Len(bl) : offers_port_alone(bl[i].bundle, p)

\* the way a call of only_bundle ends, and the bundle returned if it returns
Outcome(result, b) == [result |-> result, bundle |-> b]

\* PortGroup::only_bundle on the record list bl: the set of its outcomes.
\* assert expands to nothing when NDEBUG is defined; front () of an empty
\* list is then undefined behaviour: the call crashes or returns whatever
\* it reads, a null pointer or some bundle
only_bundle(bl, NDEBUG) ==
    IF ~NDEBUG /\ Len(bl) # 1
    THEN { Outcome("assertion failure", 0) }
    ELSE IF bl # <<>>
         THEN { Outcome("returned", bl[1].bundle.id) }
         ELSE { Outcome("crash", 0) } \cup { Outcome("returned", b) : b \in { 0, 1, 3, 4, 5, 6 } }

(***************************************************************************)
(* PortGroup::remove_duplicates, loop by loop.  Positions are 0-based for  *)
(* channels (as in the code) and 1-based for the list.                     *)
(***************************************************************************)
\* the inner while: first l..end with channel_ports (i, k) = channel_ports (j, l)
RECURSIVE ChannelScan(_, _, _, _)
ChannelScan(bi, bj, k, l) ==
    IF l < n_total(bj) /\ channel_ports(bi, k) # channel_ports(bj, l)
    THEN ChannelScan(bi, bj, k, l + 1)
    ELSE l

\* the while over k: stops at the first channel of bi with no equivalent on bj
RECURSIVE ChannelsRepresented(_, _, _)
ChannelsRepresented(bi, bj, k) ==
    IF k < n_total(bi)
    THEN IF ChannelScan(bi, bj, k, 0) = n_total(bj)
         THEN k
         ELSE ChannelsRepresented(bi, bj, k + 1)
    ELSE k

\* faulty variant: a bundle with as many channels counts as larger
larger_represents_geq(bj, bi) ==
    /\ n_total(bj) >= n_total(bi)
    /\ ChannelsRepresented(bi, bj, 0) = n_total(bi)

\* the body of the for over j: *j is larger and represents every channel of *i
larger_represents(bj, bi) ==
    /\ nchannels_greater(bj, bi)
    /\ ChannelsRepresented(bi, bj, 0) = n_total(bi)

\* the outer while, from position i of the current list; erased collects the
\* records handed to _bundles.erase, steps what each examination saw
RECURSIVE remove_duplicates_from(_, _, _, _)
remove_duplicates_from(bl, i, erased, steps) ==
    IF i > Len(bl)
    THEN [bundles |-> bl, erased |-> erased, steps |-> steps]
    ELSE LET remove == \E j \in 1..Len(bl) : larger_represents(bl[j].bundle, bl[i].bundle)
             step == [examined |-> bl[i], list |-> bl, remove |-> remove]
         IN  IF remove
             THEN remove_duplicates_from(RemoveAt(bl, i), i, Append(erased, bl[i]),
                                         Append(steps, step))
             ELSE remove_duplicates_from(bl, i + 1, erased, Append(steps, step))

\* faulty variant: the record after an erased one is not examined
RECURSIVE remove_duplicates_skipping(_, _, _, _)
remove_duplicates_skipping(bl, i, erased, steps) ==
    IF i > Len(bl)
    THEN [bundles |-> bl, erased |-> erased, steps |-> steps]
    ELSE LET remove == \E j \in 1..Len(bl) : larger_represents(bl[j].bundle, bl[i].bundle)
             step == [examined |-> bl[i], list |-> bl, remove |-> remove]
         IN  IF remove
             THEN remove_duplicates_skipping(RemoveAt(bl, i), i + 1, Append(erased, bl[i]),
                                             Append(steps, step))
             ELSE remove_duplicates_skipping(bl, i + 1, erased, Append(steps, step))

remove_duplicates_skip(bl) == remove_duplicates_skipping(bl, 1, <<>>, <<>>)

remove_duplicates(bl) == remove_duplicates_from(bl, 1, <<>>, <<>>)

(***************************************************************************)
(* PortGroupList: signal batching.  S is the signal state of the list      *)
(* during a call: the three members and the signals fired so far.          *)
(***************************************************************************)
\* faulty variant: the suspension is ignored
emit_changed_unsuspended(S) == [S EXCEPT !.out = Append(@, Changed(LIST))]

emit_changed(S) ==
    IF S._signals_suspended
    THEN [S EXCEPT !._pending_change = TRUE]
    ELSE [S EXCEPT !.out = Append(@, Changed(LIST))]

\* faulty variant: the first payload of a suspension is kept
emit_bundle_changed_first(S, c) ==
    IF S._signals_suspended
    THEN [S EXCEPT !._pending_bundle_change = IF @ = 0 THEN c ELSE @]
    ELSE [S EXCEPT !.out = Append(@, BundleChanged(LIST, c))]

emit_bundle_changed(S, c) ==
    IF S._signals_suspended
    THEN [S EXCEPT !._pending_bundle_change = c]
    ELSE [S EXCEPT !.out = Append(@, BundleChanged(LIST, c))]

suspend_signals(S) == [S EXCEPT !._signals_suspended = TRUE]

\* faulty variant: the pending change flag survives the notification
resume_signals_flag_kept(S) ==
    LET S1 == IF S._pending_change
              THEN [S EXCEPT !.out = Append(@, Changed(LIST))]
              ELSE S
        S2 == IF S1._pending_bundle_change # 0
              THEN [S1 EXCEPT !.out = Append(@, BundleChanged(LIST, S1._pending_bundle_change)),
                              !._pending_bundle_change = 0]
              ELSE S1
    IN  [S2 EXCEPT !._signals_suspended = FALSE]

resume_signals(S) ==
    LET S1 == IF S._pending_change
              THEN [S EXCEPT !.out = Append(@, Changed(LIST)), !._pending_change = FALSE]
              ELSE S
        S2 == IF S1._pending_bundle_change # 0
              THEN [S1 EXCEPT !.out = Append(@, BundleChanged(LIST, S1._pending_bundle_change)),
                              !._pending_bundle_change = 0]
              ELSE S1
    IN  [S2 EXCEPT !._signals_suspended = FALSE]

(***************************************************************************)
(* A call in progress: T.S is the list's signal state, T.W the observer of *)
(* the suspension: the emit_changed calls made while suspended (reqs), the *)
(* list's Changed signals fired since it began (fired), the payloads given *)
(* to emit_bundle_changed while suspended (seen) and the last one (last).  *)
(* The observer is kept until the call after the resume_signals.           *)
(***************************************************************************)
NoWindow == [reqs |-> 0, fired |-> 0, last |-> 0, seen |-> {}]

Start == [S |-> [_signals_suspended |-> _signals_suspended,
                 _pending_change |-> _pending_change,
                 _pending_bundle_change |-> _pending_bundle_change,
                 out |-> <<>>],
          W |-> window]

call_emit_changed(T) ==
    [S |-> emit_changed(T.S),
     W |-> IF T.S._signals_suspended THEN [T.W EXCEPT !.reqs = @ + 1] ELSE T.W]

call_emit_bundle_changed(T, c) ==
    [S |-> emit_bundle_changed(T.S, c),
     W |-> IF T.S._signals_suspended
           THEN [T.W EXCEPT !.last = c, !.seen = @ \cup {c}]
           ELSE T.W]

RECURSIVE ForwardChanged(_, _)
ForwardChanged(T, n) ==
    IF n = 0 THEN T ELSE ForwardChanged(call_emit_changed(T), n - 1)

RECURSIVE ForwardBundleChanged(_, _, _)
ForwardBundleChanged(T, c, n) ==
    IF n = 0 THEN T ELSE ForwardBundleChanged(call_emit_bundle_changed(T, c), c, n - 1)

\* group g fires Changed n times; every connection made by add_group runs emit_changed
RECURSIVE GroupChanged(_, _, _)
GroupChanged(T, g, n) ==
    IF n = 0
    THEN T
    ELSE GroupChanged(ForwardChanged([T EXCEPT !.S.out = Append(@, Changed(g))],
                                     _changed_connections[g]), g, n - 1)

\* PortGroup::bundle_changed runs n times on group g (once per connection to the bundle)
RECURSIVE GroupBundleChanged(_, _, _, _)
GroupBundleChanged(T, g, c, n) ==
    IF n = 0
    THEN T
    ELSE GroupBundleChanged(
             ForwardBundleChanged([T EXCEPT !.S.out = Append(@, BundleChanged(g, c))],
                                  c, _bundle_changed_connections[g]), g, c, n - 1)

\* the call ends: the members take their final values
Finish(T) ==
    /\ T.W.reqs <= MaxRequests
    /\ _signals_suspended' = T.S._signals_suspended
    /\ _pending_change' = T.S._pending_change
    /\ _pending_bundle_change' = T.S._pending_bundle_change
    /\ emitted' = T.S.out
    /\ window' = IF _signals_suspended
                 THEN [T.W EXCEPT !.fired = @ + NChanged(T.S.out, LIST)]
                 ELSE NoWindow

Op(o, g, b, d) == [op |-> o, g |-> g, b |-> b, allow_dups |-> d]

(***************************************************************************)
(* The objects of the scenarios.  Groups g1 and g2 are PortGroups whose    *)
(* owner outlives the list (they are handed to add_group); the eight named *)
(* groups are the ones gather creates and only the list holds.             *)
(***************************************************************************)
ExternalGroups == { "g1", "g2" }

GatherOrder == << "Busses", "Tracks", "Sidechains", "I/O Pre", "I/O Post",
                  "Misc", "External", "Hardware" >>

GatherGroups == Range(GatherOrder)

Groups == ExternalGroups \cup GatherGroups

\* the order in which a bundle's Changed reaches the groups connected to it
GroupOrder == << "g1", "g2" >> \o GatherOrder

P1 == << "s", ":", "1" >>
P2 == << "s", ":", "2" >>
P3 == << "s", ":", "3" >>

Mono(p) == << Channel(<<>>, AUDIO, << p >>) >>

\* bundles owned outside the groups (routes, session, user): 1 is mono, 3
\* and 4 are the same stereo pair in both channel orders, 5 is one channel
\* with both ports, 6 has three channels and belongs to an IO
TestBundle(i) ==
    CASE i = 1 -> Bundle(1, << "mono" >>, FALSE, Mono(P1))
      [] i = 3 -> Bundle(3, << "stereo" >>, FALSE, Mono(P1) \o Mono(P2))
      [] i = 4 -> Bundle(4, << "oerets" >>, FALSE, Mono(P2) \o Mono(P1))
      [] i = 5 -> Bundle(5, << "pair" >>, FALSE, << Channel(<<>>, AUDIO, << P1, P2 >>) >>)
      [] i = 6 -> Bundle(6, << "triple" >>, FALSE, Mono(P1) \o Mono(P2) \o Mono(P3))

PlainBundles == { TestBundle(i) : i \in { 1, 3, 4, 5 } }

\* the bundles that belong to an IO, and that IO
IOBundles == { TestBundle(6) }

GroupBundles == PlainBundles \cup IOBundles

IOOf(b) == 100 + b.id

Colours == { 7 }

(***************************************************************************)
(* PortGroup operations as actions.                                        *)
(***************************************************************************)
Subscriptions(g, b) ==
    CountIn(_bundles[g], LAMBDA r : r.bundle.id = b.id) + CopiesIn(b.id, undeleted[g])

AddBundleInternal(g, b, io, has_colour, colour, allow_dups) ==
    LET r == add_bundle_internal(_bundles[g], b, io, has_colour, colour, allow_dups)
    IN  /\ _bundles' = [_bundles EXCEPT ![g] = r.bundles]
        /\ dups_used' = [dups_used EXCEPT ![g] = @ \/ allow_dups]
        /\ Finish(GroupChanged(Start, g, r.changed))
        /\ lastOp' = Op("add_bundle", g, b.id, allow_dups)
        /\ examined' = <<>>
        /\ UNCHANGED << undeleted, listVars >>

\* add_bundle (b, allow_dups)
AddBundle(g, b, allow_dups) == AddBundleInternal(g, b, NoIO, FALSE, NoColour, allow_dups)

\* add_bundle (b, io)
AddBundleIO(g, b, io) == AddBundleInternal(g, b, io, FALSE, NoColour, FALSE)

\* add_bundle (b, io, c)
AddBundleColour(g, b, io, c) == AddBundleInternal(g, b, io, TRUE, c, FALSE)

RemoveBundle(g, b) ==
    LET r == remove_bundle(_bundles[g], b)
    IN  /\ _bundles' = [_bundles EXCEPT ![g] = r.bundles]
        /\ Finish(GroupChanged(Start, g, r.changed))
        /\ lastOp' = Op("remove_bundle", g, b.id, FALSE)
        /\ examined' = <<>>
        /\ UNCHANGED << undeleted, dups_used, listVars >>

Clear(g) ==
    /\ _bundles' = [_bundles EXCEPT ![g] = <<>>]
    /\ Finish(GroupChanged(Start, g, 1))
    /\ lastOp' = Op("clear", g, 0, FALSE)
    /\ examined' = <<>>
    /\ UNCHANGED << undeleted, dups_used, listVars >>

RECURSIVE IdBag(_)
IdBag(rs) == IF rs = <<>> THEN EmptyBag ELSE SetToBag({ Head(rs).bundle.id }) (+) IdBag(Tail(rs))

\* the erased records are not deleted: their connections stay
RemoveDuplicates(g) ==
    LET r == remove_duplicates(_bundles[g])
    IN  /\ _bundles' = [_bundles EXCEPT ![g] = r.bundles]
        /\ undeleted' = [undeleted EXCEPT ![g] = @ (+) IdBag(r.erased)]
        /\ BagCardinality(undeleted'[g]) <= MaxUndeleted
        /\ Finish(Start)
        /\ lastOp' = Op("remove_duplicates", g, 0, FALSE)
        /\ examined' = r.steps
        /\ UNCHANGED << dups_used, listVars >>

\* bundle b fires its Changed (c): every connected PortGroup::bundle_changed runs
RECURSIVE BundleFires(_, _, _, _)
BundleFires(T, gs, b, c) ==
    IF gs = <<>>
    THEN T
    ELSE BundleFires(GroupBundleChanged(T, Head(gs), c, Subscriptions(Head(gs), b)),
                     Tail(gs), b, c)

BundleChange(b, c) ==
    /\ Finish(BundleFires(Start, GroupOrder, b, c))
    /\ lastOp' = Op("bundle.Changed", "", b.id, FALSE)
    /\ examined' = <<>>
    /\ UNCHANGED << groupVars, listVars >>

(***************************************************************************)
(* SpecGroup: one PortGroup, g1, driven through its whole interface.       *)
(***************************************************************************)
Init ==
    /\ _bundles = [g \in Groups |-> <<>>]
    /\ undeleted = [g \in Groups |-> EmptyBag]
    /\ _groups = <<>>
    /\ _changed_connections = [g \in Groups |-> 0]
    /\ _bundle_changed_connections = [g \in Groups |-> 0]
    /\ _signals_suspended = FALSE
    /\ _pending_change = FALSE
    /\ _pending_bundle_change = 0
    /\ emitted = <<>>
    /\ lastOp = Op("new", "", 0, FALSE)
    /\ dups_used = [g \in Groups |-> FALSE]
    /\ examined = <<>>
    /\ window = NoWindow

NextGroup ==
    \/ \E b \in PlainBundles, d \in BOOLEAN :
          /\ Len(_bundles["g1"]) < MaxRecords
          /\ AddBundle("g1", b, d)
    \/ \E b \in IOBundles :
          /\ Len(_bundles["g1"]) < MaxRecords
          /\ AddBundleIO("g1", b, IOOf(b))
    \/ \E b \in IOBundles, c \in Colours :
          /\ Len(_bundles["g1"]) < MaxRecords
          /\ AddBundleColour("g1", b, IOOf(b), c)
    \/ \E b \in GroupBundles : RemoveBundle("g1", b)
    \/ Clear("g1")
    \/ RemoveDuplicates("g1")
    \/ \E b \in GroupBundles : BundleChange(b, NameChanged)

SpecGroup == Init /\ [][NextGroup]_vars

(***************************************************************************)
(* SpecOnlyBundle: a PortGroup, g1, whose owner asks for its only bundle,  *)
(* in a build with assertions (NDEBUG false) or without.  A call that ends *)
(* in an assertion failure or a crash ends the program.                    *)
(***************************************************************************)
OnlyBundle(g, NDEBUG) ==
    \E o \in only_bundle(_bundles[g], NDEBUG) :
        /\ lastOp' = [op |-> "only_bundle", g |-> g, b |-> o.bundle, allow_dups |-> FALSE,
                      result |-> o.result, NDEBUG |-> NDEBUG]
        /\ Finish(Start)
        /\ examined' = <<>>
        /\ UNCHANGED << groupVars, listVars >>

Alive == lastOp.op = "only_bundle" => lastOp.result = "returned"

NextOnlyBundle ==
    \/ \E b \in PlainBundles, d \in BOOLEAN :
          /\ Alive
          /\ Len(_bundles["g1"]) < MaxRecords
          /\ AddBundle("g1", b, d)
    \/ \E b \in PlainBundles : Alive /\ RemoveBundle("g1", b)
    \/ \E NDEBUG \in BOOLEAN : Alive /\ OnlyBundle("g1", NDEBUG)

SpecOnlyBundle == Init /\ [][NextOnlyBundle]_vars

(***************************************************************************)
(* PortGroupList operations.  L is the list during a call: its members and *)
(* the call in progress.  A group that only the list holds is destroyed    *)
(* when the list drops it: its signals and their connections go with it.   *)
(***************************************************************************)
ListNow(T) == [_groups |-> _groups,
               _changed_connections |-> _changed_connections,
               _bundle_changed_connections |-> _bundle_changed_connections,
               T |-> T]

ListDone(L) ==
    /\ _groups' = L._groups
    /\ _changed_connections' = L._changed_connections
    /\ _bundle_changed_connections' = L._bundle_changed_connections
    /\ Finish(L.T)

\* faulty variant: the groups are kept
PortGroupList_clear_keep(L) == [L EXCEPT !.T = call_emit_changed(@)]

\* _changed_connections is not dropped: the groups that are still alive stay
\* connected to emit_changed
PortGroupList_clear(L) ==
    [_groups |-> <<>>,
     _changed_connections |->
         [g \in Groups |-> IF g \in GatherGroups THEN 0 ELSE L._changed_connections[g]],
     _bundle_changed_connections |-> [g \in Groups |-> 0],
     T |-> call_emit_changed(L.T)]

\* faulty variant: a group is appended without a notification
add_group_silent(L, g) ==
    [L EXCEPT !._groups = Append(@, g),
              !._changed_connections[g] = @ + 1,
              !._bundle_changed_connections[g] = @ + 1]

add_group(L, g) ==
    [_groups |-> Append(L._groups, g),
     _changed_connections |-> [L._changed_connections EXCEPT ![g] = @ + 1],
     _bundle_changed_connections |-> [L._bundle_changed_connections EXCEPT ![g] = @ + 1],
     T |-> call_emit_changed(L.T)]

\* the loop of PortGroupList::remove_bundle over the groups gs; bm is every
\* group's record list
RECURSIVE RemoveFromGroups(_, _, _, _)
RemoveFromGroups(T, bm, gs, b) ==
    IF gs = <<>>
    THEN [T |-> T, bundles |-> bm]
    ELSE LET g == Head(gs)
             r == remove_bundle(bm[g], b)
         IN  RemoveFromGroups(GroupChanged(T, g, r.changed),
                              [bm EXCEPT ![g] = r.bundles], Tail(gs), b)

PortGroupList_remove_bundle(T, bm, gs, b) ==
    LET r == RemoveFromGroups(T, bm, gs, b)
    IN  [T |-> call_emit_changed(r.T), bundles |-> r.bundles]

\* what the destruction of the groups only the list held leaves behind
Destroyed(bm, gs) == [g \in Groups |-> IF g \in GatherGroups \cap Range(gs) THEN <<>> ELSE bm[g]]

\* the connections of the records they leaked are connections to nothing
DestroyedLeaks(u, gs) ==
    [g \in Groups |-> IF g \in GatherGroups \cap Range(gs) THEN EmptyBag ELSE u[g]]

AddGroup(g) ==
    /\ ListDone(add_group(ListNow(Start), g))
    /\ lastOp' = Op("add_group", g, 0, FALSE)
    /\ examined' = <<>>
    /\ UNCHANGED groupVars

ListRemoveBundle(b) ==
    LET r == PortGroupList_remove_bundle(Start, _bundles, _groups, b)
    IN  /\ _bundles' = r.bundles
        /\ Finish(r.T)
        /\ lastOp' = Op("PortGroupList::remove_bundle", LIST, b.id, FALSE)
        /\ examined' = <<>>
        /\ UNCHANGED << undeleted, dups_used, listVars >>

ListClear ==
    /\ ListDone(PortGroupList_clear(ListNow(Start)))
    /\ _bundles' = Destroyed(_bundles, _groups)
    /\ undeleted' = DestroyedLeaks(undeleted, _groups)
    /\ lastOp' = Op("PortGroupList::clear", LIST, 0, FALSE)
    /\ examined' = <<>>
    /\ UNCHANGED dups_used

SuspendSignals ==
    /\ Finish([S |-> suspend_signals(Start.S), W |-> window])
    /\ lastOp' = Op("suspend_signals", LIST, 0, FALSE)
    /\ examined' = <<>>
    /\ UNCHANGED << groupVars, listVars >>

ResumeSignals ==
    /\ Finish([S |-> resume_signals(Start.S), W |-> window])
    /\ lastOp' = Op("resume_signals", LIST, 0, FALSE)
    /\ examined' = <<>>
    /\ UNCHANGED << groupVars, listVars >>

\* gather (0, type, inputs, allow_dups, use_session_bundles): clear (), return
GatherNull(type, inputs, allow_dups, use_session_bundles) ==
    /\ ListDone(PortGroupList_clear(ListNow(Start)))
    /\ _bundles' = Destroyed(_bundles, _groups)
    /\ lastOp' = [op |-> "gather", g |-> LIST, b |-> 0, allow_dups |-> allow_dups,
                  session |-> 0, type |-> type, inputs |-> inputs,
                  use_session_bundles |-> use_session_bundles]
    /\ undeleted' = DestroyedLeaks(undeleted, _groups)
    /\ examined' = <<>>
    /\ UNCHANGED dups_used

(***************************************************************************)
(* SpecList: a PortGroupList, the groups g1 and g2 that are added to it    *)
(* and changed behind its back, and the bundles in them.                   *)
(***************************************************************************)
ListBundles == { TestBundle(1) }

NextList ==
    \/ \E g \in ExternalGroups :
          /\ Len(_groups) < MaxGroups
          /\ _changed_connections[g] < MaxConnections
          /\ AddGroup(g)
    \/ \E b \in ListBundles : ListRemoveBundle(b)
    \/ ListClear
    \/ SuspendSignals
    \/ ResumeSignals
    \/ GatherNull(NIL, TRUE, FALSE, TRUE)
    \/ \E g \in ExternalGroups, b \in ListBundles :
          /\ Len(_bundles[g]) < MaxListRecords
          /\ AddBundle(g, b, FALSE)
    \/ \E g \in ExternalGroups : Clear(g)
    \/ \E b \in ListBundles, c \in Changes : BundleChange(b, c)

SpecList == Init /\ [][NextList]_vars

(***************************************************************************)
(* SpecRemove: a PortGroupList that holds g1 and g2, whose owner adds      *)
(* bundles to them, with and without duplicates, and removes bundles       *)
(* through the list.                                                       *)
(***************************************************************************)
RemoveBundles == { TestBundle(1), TestBundle(3) }

NextRemove ==
    \/ \E g \in ExternalGroups :
          /\ g \notin Range(_groups)
          /\ AddGroup(g)
    \/ \E g \in ExternalGroups, b \in RemoveBundles, allow_dups \in BOOLEAN :
          /\ Len(_bundles[g]) < MaxRecords
          /\ AddBundle(g, b, allow_dups)
    \/ \E b \in RemoveBundles : ListRemoveBundle(b)

SpecRemove == Init /\ [][NextRemove]_vars

(***************************************************************************)
(* std::string, as far as gather uses it.  A string is a sequence of       *)
(* characters, positions are 0-based and npos is -1 (so that npos + 1 is   *)
(* 0, as it is for size_t).                                                *)
(***************************************************************************)
npos == 0 - 1

\* s.substr (pos, n)
substr(s, pos, n) ==
    LET m == IF pos + n > Len(s) THEN Len(s) - pos ELSE n
    IN  SubSeq(s, pos + 1, pos + m)

\* s.substr (pos)
substr_from(s, pos) == SubSeq(s, pos + 1, Len(s))

\* s.find (t)
find(s, t) ==
    LET hits == { i \in 0..(Len(s) - Len(t)) : substr(s, i, Len(t)) = t }
    IN  IF hits = {} THEN npos ELSE CHOOSE i \in hits : \A j \in hits : i <= j

\* s.find_first_of (chars)
find_first_of(s, chars) ==
    LET hits == { i \in 0..(Len(s) - 1) : s[i + 1] \in Range(chars) }
    IN  IF hits = {} THEN npos ELSE CHOOSE i \in hits : \A j \in hits : i <= j

LowerCase(c) ==
    CASE c = "A" -> "a"
      [] c = "M" -> "m"
      [] c = "T" -> "t"
      [] OTHER -> c

\* boost::to_lower
to_lower(s) == [i \in 1..Len(s) |-> LowerCase(s[i])]

\* PortGroupList::port_has_prefix
port_has_prefix(n, p) == substr(n, 0, Len(p)) = p

(***************************************************************************)
(* What gather reads: the session, the engine and the singletons.  An IO   *)
(* has an identity, a bundle and the ChanCount of its ports; names of      *)
(* session ports are given as make_port_name_non_relative returns them.    *)
(***************************************************************************)
PROGRAM_NAME == << "A" >>

Monitor == << "M", "o" >>

MidiThroughDash == << "T", "-", "T" >>

MidiThroughSpace == << "T", " ", "T" >>

NullIO == [id |-> 0]

NoPort == [name |-> <<>>, type |-> NIL]

IO(i, b, na, nm) == [id |-> i, bundle |-> b, n_ports |-> [AUDIO |-> na, MIDI |-> nm]]

\* the IO of bundle b, with one port per channel
IOFor(b) == IO(IOOf(b), b, n_of(b, AUDIO), n_of(b, MIDI))

(***************************************************************************)
(* gather, step by step.  X is the call in progress: the record lists of   *)
(* the eight new groups, the group signals fired so far (nothing is        *)
(* connected to them yet) and the identity of the next bundle made.        *)
(***************************************************************************)
FirstNewBundle == 1000

\* F applied to the value of v (v is evaluated once, however often F uses it)
With(v, F(_)) == CHOOSE y \in { F(x) : x \in { v } } : TRUE

\* scan is the observer of the port scan: the groups as the scan saw them and
\* the pending lists it filled
NewGather == [bundles |-> [g \in GatherGroups |-> <<>>], out |-> <<>>, next |-> FirstNewBundle,
              scan |-> <<>>]

AddTo(X, g, b, io, has_colour, colour, allow_dups) ==
    With(<< X, b, io >>, LAMBDA a :
        With(add_bundle_internal(a[1].bundles[g], a[2], a[3], has_colour, colour, allow_dups),
             LAMBDA r : [a[1] EXCEPT !.bundles[g] = r.bundles,
                                     !.out = IF r.changed = 1 THEN Append(@, Changed(g)) ELSE @]))

\* the processors outlive the call, so wp.lock () does not fail; R is the
\* list route_ios and the set used_io
maybe_add_processor_to_list(p, R, inputs) ==
    With(<< R, IF inputs THEN p.input ELSE p.output >>, LAMBDA a :
        IF p.iop /\ a[2].id # 0 /\ a[2].id \notin a[1].used_io
        THEN [ios |-> Append(a[1].ios, a[2]), used_io |-> a[1].used_io \cup { a[2].id }]
        ELSE a[1])

RECURSIVE foreach_processor(_, _, _)
foreach_processor(ps, R, inputs) ==
    IF ps = <<>>
    THEN R
    ELSE foreach_processor(Tail(ps), maybe_add_processor_to_list(Head(ps), R, inputs), inputs)

\* lines 368-389: one RouteIOs per route, the monitor bus left out on the input side
RouteIOs(r, inputs) ==
    With(IF inputs THEN r.input ELSE r.output, LAMBDA io :
        [route |-> r,
         ios |-> foreach_processor(r.processors, [ios |-> << io >>, used_io |-> { io.id }],
                                   inputs).ios])

\* faulty variant: the monitor bus is scanned on the input side too
RECURSIVE RouteScan_all(_, _)
RouteScan_all(routes, inputs) ==
    IF routes = <<>>
    THEN <<>>
    ELSE << RouteIOs(Head(routes), inputs) >> \o RouteScan_all(Tail(routes), inputs)

RECURSIVE RouteScan(_, _)
RouteScan(routes, inputs) ==
    IF routes = <<>>
    THEN <<>>
    ELSE (IF inputs /\ Head(routes).is_monitor
          THEN <<>>
          ELSE << RouteIOs(Head(routes), inputs) >>)
         \o RouteScan(Tail(routes), inputs)

RouteIOsComparator(a, b) == a.route.order < b.route.order

\* l sorted by less, elements that compare equal keeping their order: the
\* place of an element is the number of elements that go before it
StableSort(l, less(_, _)) ==
    With(l, LAMBDA v :
        LET before(i) == Cardinality({ j \in 1..Len(v) :
                             \/ less(v[j], v[i])
                             \/ ~less(v[i], v[j]) /\ j < i })
        IN  <<>> \o [k \in 1..Len(v) |-> v[CHOOSE i \in 1..Len(v) : before(i) = k - 1]])

\* faulty variant: the list is left in the order of the scan
SortRouteIOs_unsorted(l) == l

\* route_ios.sort (RouteIOsComparator ())
SortRouteIOs(l) == StableSort(l, RouteIOsComparator)

\* faulty variant: the bundles are added whatever their types
RECURSIVE AddRouteBundles_unfiltered(_, _, _, _, _)
AddRouteBundles_unfiltered(X, g, ios, type, tv) ==
    IF ios = <<>>
    THEN X
    ELSE AddRouteBundles_unfiltered(
             IF tv # 0
             THEN AddTo(X, g, Head(ios).bundle, Head(ios).id, TRUE, tv, FALSE)
             ELSE AddTo(X, g, Head(ios).bundle, Head(ios).id, FALSE, NoColour, FALSE),
             g, Tail(ios), type, tv)

\* lines 407-417
RECURSIVE AddRouteBundles(_, _, _, _, _)
AddRouteBundles(X, g, ios, type, tv) ==
    IF ios = <<>>
    THEN X
    ELSE AddRouteBundles(
             IF type = NIL \/ n_of(Head(ios).bundle, type) > 0
             THEN IF tv # 0
                  THEN AddTo(X, g, Head(ios).bundle, Head(ios).id, TRUE, tv, FALSE)
                  ELSE AddTo(X, g, Head(ios).bundle, Head(ios).id, FALSE, NoColour, FALSE)
             ELSE X,
             g, Tail(ios), type, tv)

\* lines 421-436: nth_plugin (n) for n = 0, 1, ... until there is none
RECURSIVE AddSidechains(_, _, _)
AddSidechains(X, plugins, tv) ==
    IF plugins = <<>>
    THEN X
    ELSE AddSidechains(
             IF Head(plugins).sidechain.id # 0
             THEN IF tv # 0
                  THEN AddTo(X, "Sidechains", Head(plugins).sidechain.bundle,
                             Head(plugins).sidechain.id, TRUE, tv, FALSE)
                  ELSE AddTo(X, "Sidechains", Head(plugins).sidechain.bundle,
                             Head(plugins).sidechain.id, FALSE, NoColour, FALSE)
             ELSE X,
             Tail(plugins), tv)

\* lines 396-437
RECURSIVE AddRoutes(_, _, _, _)
AddRoutes(X, route_ios, type, inputs) ==
    IF route_ios = <<>>
    THEN X
    ELSE LET i == Head(route_ios)
             g == IF i.route.is_track THEN "Tracks" ELSE "Busses"
         IN  AddRoutes(IF inputs
                       THEN AddSidechains(AddRouteBundles(X, g, i.ios, type, i.route.tv),
                                          i.route.plugins, i.route.tv)
                       ELSE AddRouteBundles(X, g, i.ios, type, i.route.tv),
                       Tail(route_ios), type, inputs)

\* lines 365-437
GatherRoutes(X, session, type, inputs) ==
    With(SortRouteIOs(RouteScan(session.routes, inputs)), LAMBDA route_ios :
        AddRoutes(X, route_ios, type, inputs))

\* lines 445-449 (user = TRUE) and 453-457 (user = FALSE)
RECURSIVE AddSessionBundles(_, _, _, _, _)
AddSessionBundles(X, bs, user, inputs, allow_dups) ==
    IF bs = <<>>
    THEN X
    ELSE AddSessionBundles(
             IF Head(bs).user = user /\ Head(bs).bundle.ports_are_inputs = inputs
             THEN AddTo(X, "Hardware", Head(bs).bundle, NoIO, FALSE, NoColour, allow_dups)
             ELSE X,
             Tail(bs), user, inputs, allow_dups)

\* lines 443-458
GatherSessionBundles(X, session, inputs, allow_dups, use_session_bundles) ==
    IF use_session_bundles
    THEN AddSessionBundles(AddSessionBundles(X, session.bundles, TRUE, inputs, allow_dups),
                           session.bundles, FALSE, inputs, allow_dups)
    ELSE AddSessionBundles(X, session.bundles, TRUE, inputs, allow_dups)

AddMisc(X, b) == AddTo(X, "Misc", b, NoIO, FALSE, NoColour, FALSE)

\* new Bundle (n, in) with the channels chs, added to Program/Misc
AddNewMisc(X, n, in, chs) ==
    With(X, LAMBDA Y : AddMisc([Y EXCEPT !.next = @ + 1], Bundle(Y.next, n, in, chs)))

\* the channels of a "Sync" bundle: one per transport master whose port is of the kind
RECURSIVE SyncChannels(_, _)
SyncChannels(tm, kind) ==
    IF tm = <<>>
    THEN <<>>
    ELSE (IF Head(tm).port = NoPort \/ Head(tm).port.type # kind
          THEN <<>>
          ELSE << Channel(Head(tm).name, kind, << Head(tm).port.name >>) >>)
         \o SyncChannels(Tail(tm), kind)

\* lines 465-470
AddAuditionerAndClick(X, session) ==
    With(IF session.auditioner.id # 0 THEN AddMisc(X, session.auditioner.bundle) ELSE X,
         LAMBDA Y : IF session.click_io.id # 0 THEN AddMisc(Y, session.click_io.bundle) ELSE Y)

\* lines 462-499
GatherAudioMisc(X, session, type, inputs) ==
    IF type = AUDIO \/ type = NIL
    THEN IF ~inputs
         THEN AddNewMisc(AddAuditionerAndClick(X, session), << "LTC Out" >>, inputs,
                         << Channel(<< "LTC Out" >>, AUDIO, << session.ltc_output_port >>) >>)
         ELSE AddNewMisc(X, << "Sync" >>, inputs,
                         SyncChannels(session.transport_masters, AUDIO))
    ELSE X

RECURSIVE AddSurfaceBundles(_, _, _)
AddSurfaceBundles(X, bs, inputs) ==
    IF bs = <<>>
    THEN X
    ELSE AddSurfaceBundles(IF Head(bs).ports_are_inputs = inputs
                           THEN AddMisc(X, Head(bs))
                           ELSE X,
                           Tail(bs), inputs)

RECURSIVE AddSurfaces(_, _, _)
AddSurfaces(X, infos, inputs) ==
    IF infos = <<>>
    THEN X
    ELSE AddSurfaces(IF Head(infos).protocol
                     THEN AddSurfaceBundles(X, Head(infos).bundles, inputs)
                     ELSE X,
                     Tail(infos), inputs)

\* lines 508-520
GatherControlSurfaces(X, session, type, inputs) ==
    IF type = MIDI \/ type = NIL
    THEN AddSurfaces(X, session.control_protocol_info, inputs)
    ELSE X

\* lines 523-529
GatherVkbd(X, session, type, inputs) ==
    IF ~inputs /\ (type = MIDI \/ type = NIL)
    THEN AddNewMisc(X, session.vkbd_output_port.pretty_name, inputs,
                    << Channel(session.vkbd_output_port.pretty_name, MIDI,
                               << session.vkbd_output_port.name >>) >>)
    ELSE X

\* lines 533-569
GatherMidiSync(X, session, type, inputs) ==
    IF type = MIDI \/ type = NIL
    THEN AddNewMisc(X, << "Sync" >>, inputs,
                    IF inputs
                    THEN SyncChannels(session.transport_masters, MIDI)
                         \o << Channel(<< "MMC in" >>, MIDI, << session.mmc_input_port >>) >>
                    ELSE << Channel(<< "MTC out" >>, MIDI, << session.mtc_output_port >>),
                            Channel(<< "MIDI clock out" >>, MIDI,
                                    << session.midi_clock_output_port >>),
                            Channel(<< "MMC out" >>, MIDI, << session.mmc_output_port >>) >>)
    ELSE X

\* lines 571-583
RECURSIVE GatherIOPlugs(_, _, _, _)
GatherIOPlugs(X, plugs, type, inputs) ==
    IF plugs = <<>>
    THEN X
    ELSE LET iop == Head(plugs)
             io == IF inputs THEN iop.input ELSE iop.output
         IN  GatherIOPlugs(
                 IF io.n_ports[AUDIO] + io.n_ports[MIDI] = 0
                 THEN X
                 ELSE IF type = NIL \/ io.n_ports[type] > 0
                      THEN AddTo(X, IF iop.is_pre THEN "I/O Pre" ELSE "I/O Post",
                                 io.bundle, io.id, FALSE, NoColour, FALSE)
                      ELSE X,
                 Tail(plugs), type, inputs)

(***************************************************************************)
(* The engine's ports: get_ports, the natural sort of the names and the    *)
(* look-ups by name.                                                       *)
(***************************************************************************)
Digits == << "0", "1", "2", "3", "4", "5", "6", "7", "8", "9" >>

IsDigit(c) == c \in Range(Digits)

DigitValue(c) == (CHOOSE i \in 1..10 : Digits[i] = c) - 1

\* the characters of the names, in ASCII order
Alphabet == << " ", "-", "/" >> \o Digits \o << ":", "A", "M", "T", "a", "b", "h", "m",
                                               "o", "p", "s", "t", "x" >>

CharRank(c) == CHOOSE i \in 1..Len(Alphabet) : Alphabet[i] = c

RECURSIVE DigitRun(_)
DigitRun(s) == IF s # <<>> /\ IsDigit(Head(s)) THEN 1 + DigitRun(Tail(s)) ELSE 0

RECURSIVE NumberOf(_, _)
NumberOf(s, acc) ==
    IF s = <<>> THEN acc ELSE NumberOf(Tail(s), 10 * acc + DigitValue(Head(s)))

\* PBD::naturally_less: lexicographic, runs of digits compared by value
RECURSIVE naturally_less(_, _)
naturally_less(a, b) ==
    IF a = <<>> THEN b # <<>>
    ELSE IF b = <<>> THEN FALSE
    ELSE IF IsDigit(Head(a)) /\ IsDigit(Head(b))
         THEN LET ra == DigitRun(a)
                  rb == DigitRun(b)
                  va == NumberOf(SubSeq(a, 1, ra), 0)
                  vb == NumberOf(SubSeq(b, 1, rb), 0)
              IN  IF va # vb
                  THEN va < vb
                  ELSE naturally_less(SubSeq(a, ra + 1, Len(a)), SubSeq(b, rb + 1, Len(b)))
    ELSE IF Head(a) = Head(b) THEN naturally_less(Tail(a), Tail(b))
    ELSE CharRank(Head(a)) < CharRank(Head(b))

\* std::sort (ports.begin (), ports.end (), port_sorter)
SortNames(l) == StableSort(l, naturally_less)

\* AudioEngine::get_ports ("", type, inputs ? IsInput : IsOutput, ports)
RECURSIVE get_ports(_, _, _)
get_ports(eps, type, inputs) ==
    IF eps = <<>>
    THEN <<>>
    ELSE (IF Head(eps).type = type /\ Head(eps).input = inputs
          THEN << Head(eps).name >>
          ELSE <<>>)
         \o get_ports(Tail(eps), type, inputs)

\* lines 596-606
PortsToScan(session, type, inputs) ==
    IF type = NIL
    THEN get_ports(session.engine_ports, AUDIO, inputs)
         \o get_ports(session.engine_ports, MIDI, inputs)
    ELSE get_ports(session.engine_ports, type, inputs)

EnginePort(session, name) ==
    CHOOSE e \in Range(session.engine_ports) : e.name = name

\* AudioEngine::get_pretty_name_by_name
get_pretty_name_by_name(session, name) ==
    IF \E e \in Range(session.engine_ports) : e.name = name
    THEN EnginePort(session, name).pretty_name
    ELSE <<>>

(***************************************************************************)
(* The scan of the ports no group claims (lines 618-693).  E holds         *)
(* extra_system, extra_program and extra_other, each indexed by data type. *)
(***************************************************************************)
NoExtra == [system |-> [t \in Range(DataTypes) |-> <<>>],
            program |-> [t \in Range(DataTypes) |-> <<>>],
            other |-> [t \in Range(DataTypes) |-> <<>>]]

\* faulty variant: has_port is not asked
Unclaimed_always(X, p, allow_dups) == TRUE

\* lines 622-631
Unclaimed(X, p, allow_dups) ==
    \/ allow_dups
    \/ /\ ~has_port(X.bundles["Hardware"], p)
       /\ ~has_port(X.bundles["Busses"], p)
       /\ ~has_port(X.bundles["Tracks"], p)
       /\ ~has_port(X.bundles["I/O Pre"], p)
       /\ ~has_port(X.bundles["I/O Post"], p)
       /\ ~has_port(X.bundles["Sidechains"], p)
       /\ ~has_port(X.bundles["Misc"], p)
       /\ ~has_port(X.bundles["External"], p)

\* faulty variant: the physical flag is looked at before the name
Bucket_physical_first(session, p) ==
    LET lpn == to_lower(PROGRAM_NAME)
        lpnc == lpn \o << ":" >>
        lp == to_lower(p)
        monitor == to_lower(Monitor)
    IN  IF find(p, MidiThroughDash) # npos \/ find(p, MidiThroughSpace) # npos THEN ""
        ELSE IF find(lp, monitor) # npos /\ find(lp, lpn) # npos THEN ""
        ELSE IF ~(\E e \in Range(session.engine_ports) : e.name = p /\ e.exists) THEN ""
        ELSE LET ph == EnginePort(session, p)
             IN  IF ph.data_type = NIL THEN ""
                 ELSE IF ph.hidden THEN ""
                 ELSE IF ph.physical THEN "system"
                 ELSE IF port_has_prefix(p, lpnc) THEN "program"
                 ELSE "other"

\* lines 634-691: the bucket of an unclaimed port, "" for none
Bucket(session, p) ==
    LET lpn == to_lower(PROGRAM_NAME)
        lpnc == lpn \o << ":" >>
        lp == to_lower(p)
        monitor == to_lower(Monitor)
    IN  IF find(p, MidiThroughDash) # npos \/ find(p, MidiThroughSpace) # npos THEN ""
        ELSE IF find(lp, monitor) # npos /\ find(lp, lpn) # npos THEN ""
        ELSE IF ~(\E e \in Range(session.engine_ports) : e.name = p /\ e.exists) THEN ""
        ELSE LET ph == EnginePort(session, p)
             IN  IF ph.data_type = NIL THEN ""
                 ELSE IF ph.hidden THEN ""
                 ELSE IF port_has_prefix(p, lpnc) THEN "program"
                 ELSE IF ph.physical THEN "system"
                 ELSE "other"

RECURSIVE ScanPorts(_, _, _, _, _)
ScanPorts(E, ports, X, session, allow_dups) ==
    IF ports = <<>>
    THEN E
    ELSE ScanPorts(
             With(<< E, IF Unclaimed(X, Head(ports), allow_dups)
                        THEN Bucket(session, Head(ports))
                        ELSE "" >>,
                  LAMBDA a :
                      IF a[2] = ""
                      THEN a[1]
                      ELSE [a[1] EXCEPT ![a[2]][EnginePort(session, Head(ports)).data_type] =
                                            Append(@, Head(ports))]),
             Tail(ports), X, session, allow_dups)

(***************************************************************************)
(* Bundles made from port names (lines 731-840).                           *)
(***************************************************************************)
common_prefix_before(p, s) ==
    IF p = <<>> \/ find_first_of(p[1], s) = npos
    THEN <<>>
    ELSE LET fp == substr(p[1], 0, find_first_of(p[1], s) + 1)
         IN  IF \A j \in 2..Len(p) : substr(p[j], 0, Len(fp)) = fp THEN fp ELSE <<>>

\* faulty variant: the prefix before ':' is tried first
common_prefix_colon_first(p) ==
    LET cp == common_prefix_before(p, << ":" >>)
    IN  IF cp # <<>> THEN cp ELSE common_prefix_before(p, << "/" >>)

common_prefix(p) ==
    LET cp == common_prefix_before(p, << "/" >>)
    IN  IF cp # <<>> THEN cp ELSE common_prefix_before(p, << ":" >>)

make_bundle_from_ports(session, id, p, type, inputs, bundle_name) ==
    LET pre == common_prefix(p)
        name == IF bundle_name # <<>> THEN bundle_name
                ELSE IF pre # <<>> THEN substr(pre, 0, Len(pre) - 1)
                ELSE <<>>
        channel(j) ==
            LET pn == get_pretty_name_by_name(session, p[j])
            IN  Channel(IF pn # <<>> THEN pn ELSE substr_from(p[j], Len(pre)), type, << p[j] >>)
    IN  Bundle(id, name, inputs, [j \in 1..Len(p) |-> channel(j)])

FlushPorts(X, session, nb, type, inputs, allow_dups, group) ==
    With(X, LAMBDA Y :
        AddTo([Y EXCEPT !.next = @ + 1], group,
              make_bundle_from_ports(session, Y.next, nb, type, inputs, <<>>),
              NoIO, FALSE, NoColour, allow_dups))

\* the loop of lines 748-757 over the rest of p, with the run nb and its prefix cp
RECURSIVE PrefixRuns(_, _, _, _, _, _, _, _, _, _)
PrefixRuns(X, session, rest, sep, nb, cp, type, inputs, allow_dups, group) ==
    IF rest = <<>>
    THEN IF nb # <<>>
         THEN FlushPorts(X, session, nb, type, inputs, allow_dups, group)
         ELSE X
    ELSE LET s == Head(rest)
             pf == substr(s, 0, find_first_of(s, sep) + 1)
         IN  IF pf # cp /\ nb # <<>>
             THEN PrefixRuns(FlushPorts(X, session, nb, type, inputs, allow_dups, group),
                             session, Tail(rest), sep, << s >>, pf, type, inputs,
                             allow_dups, group)
             ELSE PrefixRuns(X, session, Tail(rest), sep, Append(nb, s), pf, type, inputs,
                             allow_dups, group)

add_bundles_for_ports(X, session, p, type, inputs, allow_dups, group) ==
    LET has_slash == \A i \in 1..Len(p) : find(p[i], << "/" >>) # npos
        has_colon == \A i \in 1..Len(p) : find(p[i], << ":" >>) # npos
        sep == IF has_slash THEN << "/" >> ELSE IF has_colon THEN << ":" >> ELSE <<>>
    IN  IF sep = <<>>
        THEN FlushPorts(X, session, p, type, inputs, allow_dups, group)
        ELSE PrefixRuns(X, session, p, sep, <<>>, <<>>, type, inputs, allow_dups, group)

\* lines 696-713, for the data types from index t on
RECURSIVE AddExtraSystem(_, _, _, _, _, _)
AddExtraSystem(X, session, E, t, inputs, allow_dups) ==
    IF t > Len(DataTypes)
    THEN X
    ELSE AddExtraSystem(IF E.system[DataTypes[t]] # <<>>
                        THEN add_bundles_for_ports(X, session, E.system[DataTypes[t]],
                                                   DataTypes[t], inputs, allow_dups, "Hardware")
                        ELSE X,
                        session, E, t + 1, inputs, allow_dups)

\* used program name as bundle name
AddProgramPorts(X, session, p, type, inputs) ==
    With(X, LAMBDA Y :
        AddMisc([Y EXCEPT !.next = @ + 1],
                make_bundle_from_ports(session, Y.next, p, type, inputs,
                                       to_lower(PROGRAM_NAME))))

RECURSIVE AddExtraProgram(_, _, _, _, _)
AddExtraProgram(X, session, E, t, inputs) ==
    IF t > Len(DataTypes)
    THEN X
    ELSE AddExtraProgram(IF E.program[DataTypes[t]] # <<>>
                         THEN AddProgramPorts(X, session, E.program[DataTypes[t]],
                                              DataTypes[t], inputs)
                         ELSE X,
                         session, E, t + 1, inputs)

RECURSIVE AddExtraOther(_, _, _, _, _, _)
AddExtraOther(X, session, E, t, inputs, allow_dups) ==
    IF t > Len(DataTypes)
    THEN X
    ELSE AddExtraOther(IF E.other[DataTypes[t]] # <<>>
                       THEN add_bundles_for_ports(X, session, E.other[DataTypes[t]],
                                                  DataTypes[t], inputs, allow_dups, "External")
                       ELSE X,
                       session, E, t + 1, inputs, allow_dups)

\* lines 587-713
GatherPorts(X, session, type, inputs, allow_dups) ==
    With(<< X, SortNames(PortsToScan(session, type, inputs)) >>, LAMBDA a :
        With(ScanPorts(NoExtra, a[2], a[1], session, allow_dups), LAMBDA E :
            AddExtraOther(
                AddExtraProgram(
                    AddExtraSystem([a[1] EXCEPT !.scan = [claimed |-> a[1].bundles,
                                                          extra |-> E]],
                                   session, E, 1, inputs, allow_dups),
                    session, E, 1, inputs),
                session, E, 1, inputs, allow_dups)))

\* lines 351-713: the eight groups filled
GatherGroupsFilled(session, type, inputs, allow_dups, use_session_bundles) ==
    GatherPorts(
        GatherIOPlugs(
            GatherMidiSync(
                GatherVkbd(
                    GatherControlSurfaces(
                        GatherAudioMisc(
                            GatherSessionBundles(
                                GatherRoutes(NewGather, session, type, inputs),
                                session, inputs, allow_dups, use_session_bundles),
                            session, type, inputs),
                        session, type, inputs),
                    session, type, inputs),
                session, type, inputs),
            session.io_plugs, type, inputs),
        session, type, inputs, allow_dups)

(***************************************************************************)
(* gather: reset, fill, clean up and publish (lines 342-729).              *)
(***************************************************************************)
\* faulty variant: the group is appended whether it holds a bundle or not
add_group_always(L, bl, g) == add_group(L, g)

add_group_if_not_empty(L, bl, g) == IF bl # <<>> THEN add_group(L, g) ELSE L

\* lines 719-726, for the groups gs in publishing order
RECURSIVE Publish(_, _, _)
Publish(L, bm, gs) ==
    With(L, LAMBDA M :
        IF gs = <<>>
        THEN M
        ELSE Publish(add_group_if_not_empty(M, bm[Head(gs)], Head(gs)), bm, Tail(gs)))

\* lines 715-717
CleanUp(X, allow_dups) ==
    IF ~allow_dups
    THEN remove_duplicates(X.bundles["Hardware"])
    ELSE [bundles |-> X.bundles["Hardware"], erased |-> <<>>, steps |-> <<>>]

\* faulty variant: the emit_changed that ends gather (line 728) is left out
gather_no_final_emit(L, session, type, inputs, allow_dups, use_session_bundles) ==
    With(<< PortGroupList_clear(L),
            GatherGroupsFilled(session, type, inputs, allow_dups, use_session_bundles) >>,
         LAMBDA a :
             With(CleanUp(a[2], allow_dups), LAMBDA rd :
                 With([a[2].bundles EXCEPT !["Hardware"] = rd.bundles], LAMBDA bm :
                     [L |-> Publish([a[1] EXCEPT !.T.S.out = @ \o a[2].out], bm, GatherOrder),
                      bundles |-> bm,
                      erased |-> rd.erased,
                      steps |-> rd.steps,
                      scan |-> a[2].scan])))

\* gather with a session: the list when the call returns, the record lists of
\* the eight new groups, and what remove_duplicates erased and examined
gather(L, session, type, inputs, allow_dups, use_session_bundles) ==
    With(<< PortGroupList_clear(L),
            GatherGroupsFilled(session, type, inputs, allow_dups, use_session_bundles) >>,
         LAMBDA a :
             With(CleanUp(a[2], allow_dups), LAMBDA rd :
                 With([a[2].bundles EXCEPT !["Hardware"] = rd.bundles], LAMBDA bm :
                     [L |-> [Publish([a[1] EXCEPT !.T.S.out = @ \o a[2].out], bm, GatherOrder)
                                EXCEPT !.T = call_emit_changed(@)],
                      bundles |-> bm,
                      erased |-> rd.erased,
                      steps |-> rd.steps,
                      scan |-> a[2].scan])))

GatherCall(session, type, inputs, allow_dups, use_session_bundles) ==
    [op |-> "gather", g |-> LIST, b |-> 0, allow_dups |-> allow_dups,
     session |-> session.id, type |-> type, inputs |-> inputs,
     use_session_bundles |-> use_session_bundles]

Gather(session, type, inputs, allow_dups, use_session_bundles) ==
    \E r \in { gather(ListNow(Start), session, type, inputs, allow_dups,
                      use_session_bundles) } :
        /\ ListDone(r.L)
        /\ _bundles' = [g \in Groups |->
                           IF g \in GatherGroups THEN r.bundles[g] ELSE _bundles[g]]
        /\ undeleted' = [g \in Groups |->
                            IF g = "Hardware" THEN IdBag(r.erased)
                            ELSE IF g \in GatherGroups THEN EmptyBag
                            ELSE undeleted[g]]
        /\ dups_used' = [g \in Groups |->
                            IF g \in { "Hardware", "External" } THEN allow_dups
                            ELSE IF g \in GatherGroups THEN FALSE
                            ELSE dups_used[g]]
        /\ examined' = r.steps
        /\ lastOp' = GatherCall(session, type, inputs, allow_dups, use_session_bundles)
                      @@ [scan |-> r.scan]

(***************************************************************************)
(* The sessions of SpecGather.                                             *)
(***************************************************************************)
Name(c1, c2, c3) == << c1, ":", c2, c3 >>

Path(c1, c2, c3) == << c1, ":", c2, "/", c3 >>

In(i, n, t, p) == Bundle(i, n, TRUE, << Channel(<<>>, t, << p >>) >>)

Out(i, n, t, p) == Bundle(i, n, FALSE, << Channel(<<>>, t, << p >>) >>)

EnginePortOf(n, t, in, physical, hidden) ==
    [name |-> n, type |-> t, input |-> in, physical |-> physical, hidden |-> hidden,
     exists |-> TRUE, data_type |-> t, pretty_name |-> <<>>]

NoProcessor == [iop |-> FALSE, input |-> NullIO, output |-> NullIO]

\* the ports every session has
SessionPorts ==
    [ltc_output_port |-> Name("a", "x", "1"),
     vkbd_output_port |-> [name |-> Name("a", "x", "2"), pretty_name |-> << "Keyboard" >>],
     mmc_input_port |-> Name("a", "x", "3"),
     mtc_output_port |-> Name("a", "x", "4"),
     midi_clock_output_port |-> Name("a", "x", "5"),
     mmc_output_port |-> Name("a", "x", "6")]

\* a session with nothing in it, on an engine with no ports
EmptySession ==
    [id |-> 1, routes |-> <<>>, bundles |-> <<>>, auditioner |-> NullIO, click_io |-> NullIO,
     io_plugs |-> <<>>, transport_masters |-> <<>>, control_protocol_info |-> <<>>,
     engine_ports |-> <<>>] @@ SessionPorts

\* an audio session: a track (with its main outs and a side-chained
\* plugin), a bus with a send, the monitor bus (with an IO processor and a
\* side-chained plugin of its own), a second bus with the display order of
\* the first, a second track displayed before the first, an IO plugin, an
\* LTC master
AudioSession ==
    LET t_in == IOFor(In(11, << "t in" >>, AUDIO, Path("a", "t", "1")))
        t_out == IOFor(Out(12, << "t out" >>, AUDIO, Path("a", "t", "2")))
        t_sc == IOFor(In(13, << "t sc" >>, AUDIO, Path("a", "t", "3")))
        b_in == IOFor(In(21, << "b in" >>, AUDIO, Path("a", "b", "1")))
        b_out == IOFor(Out(22, << "b out" >>, AUDIO, Path("a", "b", "2")))
        b_send == IOFor(Out(23, << "b send" >>, AUDIO, Path("a", "b", "3")))
        c_in == IOFor(In(24, << "c in" >>, AUDIO, Path("a", "x", "1")))
        c_out == IOFor(Out(25, << "c out" >>, AUDIO, Path("a", "x", "2")))
        u_in == IOFor(In(14, << "u in" >>, AUDIO, Path("a", "o", "1")))
        u_out == IOFor(Out(15, << "u out" >>, AUDIO, Path("a", "o", "2")))
        m_in == IOFor(In(31, << "m in" >>, AUDIO, << "a", ":", "M", "o", "/", "1" >>))
        m_out == IOFor(Out(32, << "m out" >>, AUDIO, << "a", ":", "M", "o", "/", "2" >>))
        m_pin == IOFor(In(33, << "m ret" >>, AUDIO, << "a", ":", "M", "o", "/", "3" >>))
        m_pout == IOFor(Out(34, << "m send" >>, AUDIO, << "a", ":", "M", "o", "/", "4" >>))
        m_sc == IOFor(In(35, << "m sc" >>, AUDIO, << "a", ":", "M", "o", "/", "5" >>))
        p_in == IOFor(In(51, << "p in" >>, AUDIO, Path("a", "p", "1")))
        p_out == IOFor(Out(52, << "p out" >>, AUDIO, Path("a", "p", "2")))
        aud == IOFor(Out(41, << "auditioner" >>, AUDIO, Path("a", "a", "1")))
    IN  [id |-> 2,
         routes |-> <<
             [id |-> 1, order |-> 2, is_track |-> TRUE, is_monitor |-> FALSE,
              input |-> t_in, output |-> t_out, tv |-> 7,
              processors |-> << [iop |-> TRUE, input |-> NullIO, output |-> t_out] >>,
              plugins |-> << [sidechain |-> NullIO], [sidechain |-> t_sc] >>],
             [id |-> 2, order |-> 1, is_track |-> FALSE, is_monitor |-> FALSE,
              input |-> b_in, output |-> b_out, tv |-> 0,
              processors |-> << NoProcessor,
                                [iop |-> TRUE, input |-> NullIO, output |-> b_send] >>,
              plugins |-> <<>>],
             [id |-> 3, order |-> 0, is_track |-> FALSE, is_monitor |-> TRUE,
              input |-> m_in, output |-> m_out, tv |-> 0,
              processors |-> << [iop |-> TRUE, input |-> m_pin, output |-> m_pout] >>,
              plugins |-> << [sidechain |-> m_sc] >>],
             [id |-> 5, order |-> 1, is_track |-> FALSE, is_monitor |-> FALSE,
              input |-> c_in, output |-> c_out, tv |-> 0,
              processors |-> <<>>, plugins |-> <<>>],
             [id |-> 6, order |-> 1, is_track |-> TRUE, is_monitor |-> FALSE,
              input |-> u_in, output |-> u_out, tv |-> 0,
              processors |-> <<>>, plugins |-> <<>>] >>,
         bundles |-> <<>>,
         auditioner |-> aud,
         click_io |-> NullIO,
         io_plugs |-> << [input |-> p_in, output |-> p_out, is_pre |-> TRUE],
                         [input |-> IO(53, In(53, << "q in" >>, AUDIO, <<>>), 0, 0),
                          output |-> IO(54, Out(54, << "q out" >>, AUDIO, <<>>), 0, 0),
                          is_pre |-> FALSE] >>,
         transport_masters |-> << [name |-> << "LTC" >>,
                                   port |-> [name |-> Name("a", "x", "7"), type |-> AUDIO]],
                                  [name |-> << "JACK" >>, port |-> NoPort] >>,
         control_protocol_info |-> <<>>,
         engine_ports |-> <<
             EnginePortOf(<< "s", ":", "p", "1", "0" >>, AUDIO, TRUE, TRUE, FALSE),
             EnginePortOf(Name("s", "p", "2"), AUDIO, TRUE, TRUE, FALSE),
             EnginePortOf(Name("s", "p", "1"), AUDIO, TRUE, TRUE, FALSE),
             EnginePortOf(Name("s", "o", "1"), AUDIO, FALSE, TRUE, FALSE),
             EnginePortOf(Name("x", "o", "1"), AUDIO, FALSE, FALSE, FALSE),
             EnginePortOf(Path("a", "t", "1"), AUDIO, TRUE, FALSE, FALSE),
             EnginePortOf(Path("a", "t", "2"), AUDIO, FALSE, FALSE, FALSE),
             EnginePortOf(<< "a", ":", "M", "o", "/", "1" >>, AUDIO, TRUE, FALSE, FALSE),
             EnginePortOf(Name("a", "x", "1"), AUDIO, FALSE, FALSE, FALSE),
             EnginePortOf(Name("a", "x", "7"), AUDIO, TRUE, FALSE, FALSE),
             EnginePortOf(Name("a", "h", "1"), AUDIO, TRUE, FALSE, TRUE),
             EnginePortOf(Name("a", "p", "9"), AUDIO, TRUE, TRUE, FALSE) >>]
        @@ SessionPorts

\* a session with a MIDI track and an audio bus, IO plugins of both types and
\* one with an audio and a MIDI port, session bundles that overlap (inputs: a user
\* bundle and an automatic one of the same two hardware ports, and an
\* automatic mono bundle of the first port; outputs: an automatic mono
\* bundle, an automatic pair and a user mono bundle of the first port), a
\* click IO, control surfaces and an MTC master
MidiSession ==
    LET S1 == Name("s", "p", "1")
        S2 == Name("s", "p", "2")
        t_in == IOFor(In(61, << "m in" >>, MIDI, Path("a", "m", "1")))
        t_out == IOFor(Out(62, << "m out" >>, MIDI, Path("a", "m", "2")))
        d_in == IOFor(In(63, << "d in" >>, AUDIO, Path("a", "d", "1")))
        d_out == IOFor(Out(64, << "d out" >>, AUDIO, Path("a", "d", "2")))
        r_in == IOFor(In(55, << "r in" >>, MIDI, Path("a", "r", "1")))
        r_out == IOFor(Out(56, << "r out" >>, MIDI, Path("a", "r", "2")))
        v_in == IOFor(In(57, << "v in" >>, AUDIO, Path("a", "v", "1")))
        v_out == IOFor(Out(58, << "v out" >>, AUDIO, Path("a", "v", "2")))
        mixed(i, in, c) == Bundle(i, << "w" >>, in,
                                  << Channel(<<>>, AUDIO, << Path("a", "w", c) >>),
                                     Channel(<<>>, MIDI, << Path("a", "y", c) >>) >>)
        stereo == << Channel(<< "L" >>, AUDIO, << S1 >>), Channel(<< "R" >>, AUDIO, << S2 >>) >>
        pretty(e) == [e EXCEPT !.pretty_name = << "Synth" >>]
        vanished(e) == [e EXCEPT !.exists = FALSE]
        untyped(e) == [e EXCEPT !.data_type = NIL]
    IN  [id |-> 3,
         routes |-> <<
             [id |-> 4, order |-> 1, is_track |-> TRUE, is_monitor |-> FALSE,
              input |-> t_in, output |-> t_out, tv |-> 0,
              processors |-> <<>>, plugins |-> <<>>],
             [id |-> 7, order |-> 2, is_track |-> FALSE, is_monitor |-> FALSE,
              input |-> d_in, output |-> d_out, tv |-> 0,
              processors |-> <<>>, plugins |-> <<>>] >>,
         bundles |-> << [bundle |-> Bundle(72, << "auto" >>, TRUE, stereo), user |-> FALSE],
                        [bundle |-> In(73, << "auto 1" >>, AUDIO, S1), user |-> FALSE],
                        [bundle |-> Bundle(71, << "user" >>, TRUE, stereo), user |-> TRUE],
                        [bundle |-> Out(74, << "auto out" >>, AUDIO, Name("s", "o", "1")),
                         user |-> FALSE],
                        [bundle |-> Bundle(77, << "auto out pair" >>, FALSE,
                                           << Channel(<< "L" >>, AUDIO, << Name("s", "o", "1") >>),
                                              Channel(<< "R" >>, AUDIO, << Name("s", "o", "2") >>) >>),
                         user |-> FALSE],
                        [bundle |-> Out(76, << "user out" >>, AUDIO, Name("s", "o", "1")),
                         user |-> TRUE] >>,
         auditioner |-> NullIO,
         click_io |-> IOFor(Out(42, << "click" >>, AUDIO, Name("a", "x", "8"))),
         io_plugs |-> << [input |-> r_in, output |-> r_out, is_pre |-> FALSE],
                         [input |-> v_in, output |-> v_out, is_pre |-> FALSE],
                         [input |-> IOFor(mixed(59, TRUE, "1")),
                          output |-> IOFor(mixed(60, FALSE, "2")), is_pre |-> TRUE] >>,
         transport_masters |-> << [name |-> << "MTC" >>,
                                   port |-> [name |-> Name("a", "x", "9"), type |-> MIDI]] >>,
         control_protocol_info |-> <<
             [protocol |-> TRUE,
              bundles |-> << In(81, << "surface in" >>, MIDI, Name("a", "s", "1")),
                             Out(82, << "surface out" >>, MIDI, Name("a", "s", "2")) >>],
             [protocol |-> FALSE,
              bundles |-> << In(83, << "off in" >>, MIDI, Name("a", "s", "3")) >>] >>,
         engine_ports |-> <<
             EnginePortOf(S2, AUDIO, TRUE, TRUE, FALSE),
             EnginePortOf(S1, AUDIO, TRUE, TRUE, FALSE),
             EnginePortOf(Name("s", "m", "1"), MIDI, TRUE, TRUE, FALSE),
             EnginePortOf(Name("s", "m", "2"), MIDI, FALSE, TRUE, FALSE),
             EnginePortOf(<< "x", ":", "T", "-", "T" >>, MIDI, TRUE, FALSE, FALSE),
             EnginePortOf(<< "x", ":", "T", " ", "T" >>, MIDI, FALSE, FALSE, FALSE),
             pretty(EnginePortOf(Name("x", "m", "1"), MIDI, FALSE, FALSE, FALSE)),
             EnginePortOf(Name("x", "m", "2"), MIDI, FALSE, FALSE, FALSE),
             EnginePortOf(Name("b", "m", "1"), MIDI, FALSE, FALSE, FALSE),
             vanished(EnginePortOf(Name("x", "m", "3"), MIDI, TRUE, FALSE, FALSE)),
             untyped(EnginePortOf(Name("x", "m", "4"), MIDI, TRUE, FALSE, FALSE)),
             EnginePortOf(Path("a", "m", "1"), MIDI, TRUE, FALSE, FALSE),
             EnginePortOf(Name("a", "s", "1"), MIDI, TRUE, FALSE, FALSE),
             EnginePortOf(Name("a", "b", "1"), MIDI, TRUE, FALSE, FALSE) >>]
        @@ SessionPorts

Sessions == << EmptySession, AudioSession, MidiSession >>

SessionOf(i) == Sessions[i]

(***************************************************************************)
(* SpecGather: a PortGroupList that is gathered again and again, from      *)
(* every session, with every combination of arguments, suspended or not.   *)
(***************************************************************************)
NextGather ==
    \/ \E i \in 1..Len(Sessions), type \in { AUDIO, MIDI, NIL },
          inputs \in BOOLEAN, allow_dups \in BOOLEAN, use_session_bundles \in BOOLEAN :
          Gather(SessionOf(i), type, inputs, allow_dups, use_session_bundles)
    \/ \E type \in { AUDIO, MIDI, NIL }, inputs \in BOOLEAN :
          GatherNull(type, inputs, FALSE, TRUE)
    \/ SuspendSignals
    \/ ResumeSignals

SpecGather == Init /\ [][NextGather]_vars

(***************************************************************************)
(* SpecRegather: a PortGroupList that also holds a group of its owner's,   *)
(* g1, when it is gathered (with the session's bundles).                   *)
(***************************************************************************)
NextRegather ==
    \/ \E i \in 1..Len(Sessions), type \in { AUDIO, MIDI, NIL }, inputs \in BOOLEAN,
          allow_dups \in BOOLEAN :
          Gather(SessionOf(i), type, inputs, allow_dups, TRUE)
    \/ /\ _changed_connections["g1"] < MaxConnections
       /\ AddGroup("g1")

SpecRegather == Init /\ [][NextRegather]_vars

(***************************************************************************)
(* SpecPorts: add_bundles_for_ports applied once to a new group            *)
(* ("External") and a sorted list of port names that no engine port gives  *)
(* a pretty name.                                                          *)
(***************************************************************************)
MaxPorts == 4

PortNamePool ==
    << << "a", "/", "1" >>, << "a", "/", "2" >>, << "a", "/", "3" >>, << "b", "/", "1" >>,
       << "a", ":", "b", "/", "1" >>, << "a", ":", "x", "/", "1" >>,
       << "a", ":", "x", "/", "2" >>, << "b", ":", "x" >>, << "x" >> >>

\* the names of the pool at the indices I, as a list
RECURSIVE PoolNames(_, _)
PoolNames(I, i) ==
    IF i > Len(PortNamePool)
    THEN <<>>
    ELSE (IF i \in I THEN << PortNamePool[i] >> ELSE <<>>) \o PoolNames(I, i + 1)

InitPorts ==
    /\ _bundles = [g \in Groups |-> <<>>]
    /\ undeleted = [g \in Groups |-> EmptyBag]
    /\ _groups = <<>>
    /\ _changed_connections = [g \in Groups |-> 0]
    /\ _bundle_changed_connections = [g \in Groups |-> 0]
    /\ _signals_suspended = FALSE
    /\ _pending_change = FALSE
    /\ _pending_bundle_change = 0
    /\ emitted = <<>>
    /\ \E I \in SUBSET (1..Len(PortNamePool)) :
          /\ Cardinality(I) <= MaxPorts
          /\ lastOp = [op |-> "ports", g |-> "External", b |-> 0, allow_dups |-> FALSE,
                       p |-> SortNames(PoolNames(I, 1))]
    /\ dups_used = [g \in Groups |-> FALSE]
    /\ examined = <<>>
    /\ window = NoWindow

AddBundlesForPorts(type, inputs, allow_dups) ==
    /\ lastOp.op = "ports"
    /\ \E X \in { add_bundles_for_ports(NewGather, EmptySession, lastOp.p, type, inputs,
                                         allow_dups, lastOp.g) } :
          /\ _bundles' = [_bundles EXCEPT ![lastOp.g] = X.bundles[lastOp.g]]
          /\ Finish([Start EXCEPT !.S.out = X.out])
    /\ dups_used' = [dups_used EXCEPT ![lastOp.g] = allow_dups]
    /\ lastOp' = [op |-> "add_bundles_for_ports", g |-> lastOp.g, b |-> 0,
                  allow_dups |-> allow_dups, p |-> lastOp.p, type |-> type,
                  inputs |-> inputs]
    /\ examined' = <<>>
    /\ UNCHANGED << undeleted, listVars >>

NextPorts ==
    \E type \in Range(DataTypes), inputs \in BOOLEAN, allow_dups \in BOOLEAN :
        AddBundlesForPorts(type, inputs, allow_dups)

SpecPorts == InitPorts /\ [][NextPorts]_vars

(***************************************************************************)
(* Properties of a PortGroup (SpecGroup).                                  *)
(***************************************************************************)
RecordsOf(bl, id) == CountIn(bl, LAMBDA r : r.bundle.id = id)

\* C1: while every add_bundle on a group has passed allow_dups = false, no
\* two records of the group reference bundles with the same set of port names
C1_NoTwoRecordsWithSamePorts ==
    \A g \in Groups :
        ~dups_used[g] =>
            \A i, j \in 1..Len(_bundles[g]) :
                i # j => PortSet(_bundles[g][i].bundle) # PortSet(_bundles[g][j].bundle)

\* an add_bundle without duplicates has just been refused, in a group that
\* has only ever been filled without duplicates and holds two records
C1_Witness ==
    /\ lastOp.op = "add_bundle" /\ lastOp.g = "g1" /\ ~dups_used["g1"]
    /\ Len(_bundles["g1"]) = 2
    /\ RecordsOf(_bundles["g1"], lastOp.b) = 0
    /\ \E i \in 1..2 : PortSet(_bundles["g1"][i].bundle) = PortSet(TestBundle(lastOp.b))

\* C2: add_bundle without duplicates of a bundle whose port-name set is
\* already in the group changes nothing: same list, same connections to the
\* bundle's Changed, and the group's Changed is not fired
C2_DuplicateAddIsNoOp ==
    [][ \A g \in Groups :
          ( /\ lastOp'.op = "add_bundle" /\ lastOp'.g = g /\ ~lastOp'.allow_dups
            /\ \E i \in 1..Len(_bundles[g]) :
                  PortSet(_bundles[g][i].bundle) = PortSet(TestBundle(lastOp'.b)) )
          => ( /\ _bundles'[g] = _bundles[g]
               /\ \A b \in GroupBundles : Subscriptions(g, b)' = Subscriptions(g, b)
               /\ NChanged(emitted', g) = 0 ) ]_vars

\* the refused bundle is not in the group itself: another bundle of the group
\* has its ports, in another channel layout
C2_Witness ==
    /\ lastOp.op = "add_bundle" /\ lastOp.g = "g1" /\ ~lastOp.allow_dups
    /\ RecordsOf(_bundles["g1"], lastOp.b) = 0
    /\ \E i \in 1..Len(_bundles["g1"]) :
          /\ PortSet(_bundles["g1"][i].bundle) = PortSet(TestBundle(lastOp.b))
          /\ _bundles["g1"][i].bundle.channels # TestBundle(lastOp.b).channels
    /\ emitted = <<>>

C6_OneSubscriptionPerRecord ==
    lastOp.op = "bundle.Changed" =>
        \A g \in Groups : NBundleChanged(emitted, g) = RecordsOf(_bundles[g], lastOp.b)

\* C7 in the claim's own words: B has strictly more channels than A and every
\* channel of A has the port list of some channel of B
Represents(B, A) ==
    /\ Len(B.channels) > Len(A.channels)
    /\ \A k \in 1..Len(A.channels) :
          \E l \in 1..Len(B.channels) : A.channels[k].ports = B.channels[l].ports

RECURSIVE IsSubsequence(_, _)
IsSubsequence(s, t) ==
    IF s = <<>> THEN TRUE
    ELSE IF t = <<>> THEN FALSE
    ELSE IF Head(s) = Head(t) THEN IsSubsequence(Tail(s), Tail(t))
    ELSE IsSubsequence(s, Tail(t))

\* C7: remove_duplicates removes a record only if, when it is examined, the
\* list holds a bundle that represents it; the records no bundle of the group
\* represents all remain, and the remaining records keep their order
C7_RemoveDuplicatesOnlyRepresented ==
    [][ \A g \in Groups :
          (lastOp'.op = "remove_duplicates" /\ lastOp'.g = g) =>
            LET pre == _bundles[g]
                post == _bundles'[g]
                removed == { n \in 1..Len(examined') : examined'[n].remove }
            IN  /\ Len(examined') = Len(pre)
                /\ Len(pre) > 0 => examined'[1].list = pre
                /\ \A n \in removed :
                      \E j \in 1..Len(examined'[n].list) :
                          Represents(examined'[n].list[j].bundle, examined'[n].examined.bundle)
                /\ Len(post) = Len(pre) - Cardinality(removed)
                /\ IsSubsequence(post, pre)
                /\ \A i \in 1..Len(pre) :
                      (~\E j \in 1..Len(pre) : Represents(pre[j].bundle, pre[i].bundle))
                      => CountIn(post, LAMBDA r : r = pre[i]) = CountIn(pre, LAMBDA r : r = pre[i])
      ]_vars

\* remove_duplicates has removed one record and kept two, one of them a
\* bundle with the removed one's ports that does not represent it
C7_Witness ==
    /\ lastOp.op = "remove_duplicates" /\ lastOp.g = "g1"
    /\ Len(examined) = 3 /\ Len(_bundles["g1"]) = 2
    /\ \E n \in 1..3 : examined[n].remove /\ examined[n].examined.bundle.id = 1
    /\ \E i \in 1..2 : _bundles["g1"][i].bundle.id = 5

\* C8: remove_bundle (b) removes the first record whose bundle is b itself and
\* nothing else; Changed is fired exactly when a record was removed
C8_RemoveBundleFirstByIdentity ==
    [][ \A g \in Groups :
          (lastOp'.op = "remove_bundle" /\ lastOp'.g = g) =>
            LET pre == _bundles[g]
                hits == { i \in 1..Len(pre) : pre[i].bundle.id = lastOp'.b }
            IN  IF hits = {}
                THEN _bundles'[g] = pre /\ NChanged(emitted', g) = 0
                ELSE LET first == CHOOSE i \in hits : \A j \in hits : i <= j
                     IN  /\ _bundles'[g] = [n \in 1..(Len(pre) - 1) |->
                                               IF n < first THEN pre[n] ELSE pre[n + 1]]
                         /\ NChanged(emitted', g) = 1
      ]_vars

\* a record of b was removed while a later record of b and a record of
\* another bundle with the same ports stay
C8_Witness ==
    /\ lastOp.op = "remove_bundle" /\ lastOp.g = "g1"
    /\ emitted = << Changed("g1") >>
    /\ Len(_bundles["g1"]) = 2
    /\ RecordsOf(_bundles["g1"], lastOp.b) = 1
    /\ \E i \in 1..2 :
          /\ _bundles["g1"][i].bundle.id # lastOp.b
          /\ PortSet(_bundles["g1"][i].bundle) = PortSet(TestBundle(lastOp.b))

(***************************************************************************)
(* Properties of a PortGroupList (SpecList).                               *)
(***************************************************************************)
\* C3: during a suspension the list's Changed is not fired, and the
\* resume_signals that ends a suspension with at least one request for a
\* change notification has fired it exactly once since the suspension began
C3_SuspensionCoalescesChanged ==
    /\ _signals_suspended => window.fired = 0
    /\ (lastOp.op = "resume_signals" /\ window.reqs >= 1) => window.fired = 1

\* three requests were made while suspended, then resume_signals fired Changed
C3_Witness ==
    /\ lastOp.op = "resume_signals"
    /\ window.reqs = 3
    /\ window.fired = 1
    /\ NChanged(emitted, LIST) = 1

\* C4: while suspended only the latest payload is retained; resume_signals
\* fires Changed if it is pending, then BundleChanged with the last payload
\* received if there is one, each once, and leaves nothing pending and the
\* list not suspended
C4_ResumeFiresLatestPayloadInOrder ==
    [][ /\ _signals_suspended' => _pending_bundle_change' = window'.last
        /\ lastOp'.op = "resume_signals" =>
              /\ LET last == IF _signals_suspended THEN window.last ELSE 0
                 IN  emitted' = (IF _pending_change THEN << Changed(LIST) >> ELSE <<>>)
                                \o (IF last # 0 THEN << BundleChanged(LIST, last) >> ELSE <<>>)
              /\ ~_pending_change'
              /\ _pending_bundle_change' = 0
              /\ ~_signals_suspended' ]_vars

\* both payloads were received during the suspension; resume_signals fired
\* Changed and then BundleChanged with the later one
C4_Witness ==
    /\ lastOp.op = "resume_signals"
    /\ window.seen = Changes
    /\ emitted = << Changed(LIST), BundleChanged(LIST, window.last) >>
    /\ ~_signals_suspended /\ ~_pending_change /\ _pending_bundle_change = 0

\* C9: gather with a null session leaves the list without groups; it fires
\* the list's Changed once when the signals are not suspended, and only sets
\* the pending change flag when they are; the groups themselves are untouched
C9_GatherNullSessionOnlyClears ==
    [][ (lastOp'.op = "gather" /\ lastOp'.session = 0) =>
          /\ _groups' = <<>>
          /\ \A g \in ExternalGroups : _bundles'[g] = _bundles[g]
          /\ _signals_suspended' = _signals_suspended
          /\ _pending_bundle_change' = _pending_bundle_change
          /\ IF _signals_suspended
             THEN emitted' = <<>> /\ _pending_change'
             ELSE emitted' = << Changed(LIST) >> /\ ~_pending_change' ]_vars

\* gather (0, ...) has run on a list that held groups with bundles in them
C9_Witness ==
    /\ lastOp.op = "gather" /\ lastOp.session = 0
    /\ _groups = <<>>
    /\ _changed_connections["g1"] > 0 /\ _changed_connections["g2"] > 0
    /\ _bundles["g1"] # <<>>
    /\ emitted = << Changed(LIST) >>

(***************************************************************************)
(* Properties of gather (SpecGather).                                      *)
(***************************************************************************)
\* route r has an IO or a sidechain that the route scan puts into a group
RouteYields(r, type, inputs) ==
    /\ ~(inputs /\ r.is_monitor)
    /\ \/ \E io \in Range(RouteIOs(r, inputs).ios) : type = NIL \/ n_of(io.bundle, type) > 0
       \/ inputs /\ \E i \in 1..Len(r.plugins) : r.plugins[i].sidechain.id # 0

\* one of the sources of gather has something of the requested type and direction
SourcesYield(session, type, inputs, use_session_bundles) ==
    \/ \E i \in 1..Len(session.routes) : RouteYields(session.routes[i], type, inputs)
    \/ \E i \in 1..Len(session.bundles) :
          /\ session.bundles[i].bundle.ports_are_inputs = inputs
          /\ session.bundles[i].user \/ use_session_bundles
    \/ \E t \in Range(DataTypes) :
          /\ type \in { t, NIL }
          /\ SyncChannels(session.transport_masters, t) # <<>>
    \/ /\ type \in { MIDI, NIL }
       /\ \E i \in 1..Len(session.control_protocol_info) :
             /\ session.control_protocol_info[i].protocol
             /\ \E b \in Range(session.control_protocol_info[i].bundles) :
                   b.ports_are_inputs = inputs
    \/ \E i \in 1..Len(session.io_plugs) :
          LET io == IF inputs THEN session.io_plugs[i].input ELSE session.io_plugs[i].output
          IN  /\ io.n_ports[AUDIO] + io.n_ports[MIDI] > 0
              /\ type = NIL \/ io.n_ports[type] > 0
    \/ PortsToScan(session, type, inputs) # <<>>

\* the last call was gather with a session none of whose sources yields anything
GatheredNothing ==
    /\ lastOp.op = "gather"
    /\ lastOp.session # 0
    /\ ~SourcesYield(SessionOf(lastOp.session), lastOp.type, lastOp.inputs,
                     lastOp.use_session_bundles)

Gathered == lastOp.op = "gather" /\ lastOp.session # 0

\* the category groups that hold at least one bundle
NonEmptyGatherGroups == { g \in GatherGroups : _bundles[g] # <<>> }

\* C11 (as stated): during a gather with a session and signals not
\* suspended, the list's Changed fires once for the reset and exactly once
\* more, however many category groups are non-empty.
C11_OneChangedAfterReset ==
    (Gathered /\ ~_signals_suspended) => NChanged(emitted, LIST) = 1 + 1

\* C11 (amended): during such a call the list's Changed fires once for the
\* reset, once for every non-empty category group as it is appended to the
\* list, and once more for the emit_changed that ends the call.
C11_ChangedPerGroupAppended ==
    (Gathered /\ ~_signals_suspended) =>
        /\ NChanged(emitted, LIST) = 1 + Cardinality(NonEmptyGatherGroups) + 1
        /\ Len(_groups) = Cardinality(NonEmptyGatherGroups)

\* the inputs of the audio session were gathered, signals not suspended: four
\* groups or more were appended and Changed fired two times more than that
C11_Witness ==
    /\ Gathered /\ ~_signals_suspended
    /\ lastOp.session = AudioSession.id /\ lastOp.inputs
    /\ Len(_groups) >= 4
    /\ NChanged(emitted, LIST) = Len(_groups) + 2

\* C12: right after gather with a session the list holds exactly the category
\* groups with at least one bundle, each once, in the order Busses, Tracks,
\* Sidechains, I/O Pre, I/O Post, Program/Misc, External, Hardware, and none
\* of the groups it held before the call
C12_NonEmptyGroupsInFixedOrder ==
    Gathered => _groups = SelectSeq(GatherOrder, LAMBDA g : _bundles[g] # <<>>)

\* gather has run on a list to which g1 had been added: g1 is out, four
\* category groups or more are in and at least one, being empty, is not
C12_Witness ==
    /\ Gathered
    /\ _changed_connections["g1"] > 0
    /\ Len(_groups) >= 4
    /\ \E g \in GatherGroups : _bundles[g] = <<>> /\ g \notin Range(_groups)
    /\ "g1" \notin Range(_groups)

\* the IOs of route r: its input and output, those of its IO processors and
\* the sidechain inputs of its plugins
IOsOfRoute(r) ==
    ({ r.input.id, r.output.id }
     \cup { r.processors[i].input.id : i \in { k \in 1..Len(r.processors) : r.processors[k].iop } }
     \cup { r.processors[i].output.id : i \in { k \in 1..Len(r.processors) : r.processors[k].iop } }
     \cup { r.plugins[i].sidechain.id : i \in 1..Len(r.plugins) }) \ { NullIO.id }

\* the group of the bundles of route r
GroupOfRoute(r) == IF r.is_track THEN "Tracks" ELSE "Busses"

\* C13: after gather for inputs no record of Tracks, Busses or Sidechains
\* belongs to an IO of a route flagged as monitor; after gather for outputs
\* the output IO of every route, the monitor route included, is in the
\* route's group when it has a channel of the requested type
C13_MonitorSkippedOnInputsOnly ==
    Gathered =>
        \A i \in 1..Len(SessionOf(lastOp.session).routes) :
            LET r == SessionOf(lastOp.session).routes[i]
            IN  IF lastOp.inputs
                THEN r.is_monitor =>
                        \A g \in { "Tracks", "Busses", "Sidechains" } :
                            \A k \in 1..Len(_bundles[g]) : _bundles[g][k].io \notin IOsOfRoute(r)
                ELSE (lastOp.type = NIL \/ n_of(r.output.bundle, lastOp.type) > 0) =>
                        \E k \in 1..Len(_bundles[GroupOfRoute(r)]) :
                            /\ _bundles[GroupOfRoute(r)][k].io = r.output.id
                            /\ _bundles[GroupOfRoute(r)][k].bundle = r.output.bundle

\* the inputs of the audio session were gathered: the bus and the track's
\* sidechain are in, the monitor bus, its processor and its sidechain are not
C13_Witness ==
    /\ Gathered /\ lastOp.inputs /\ lastOp.session = AudioSession.id
    /\ \E i \in 1..Len(AudioSession.routes) :
          /\ AudioSession.routes[i].is_monitor
          /\ AudioSession.routes[i].plugins # <<>>
          /\ Cardinality(IOsOfRoute(AudioSession.routes[i])) = 5
    /\ _bundles["Busses"] # <<>>
    /\ Len(_bundles["Sidechains"]) = 1

(***************************************************************************)
(* Properties of add_bundles_for_ports (SpecPorts).                        *)
(***************************************************************************)
Contains(s, c) == \E i \in 1..Len(s) : s[i] = c

\* the separator of the list p as C14 words it ("" for none)
SeparatorOf(p) ==
    IF \A i \in 1..Len(p) : Contains(p[i], "/") THEN "/"
    ELSE IF \A i \in 1..Len(p) : Contains(p[i], ":") THEN ":"
    ELSE ""

\* the prefix of s up to and including the first c, for s that contains c
PrefixUpTo(s, c) == SubSeq(s, 1, CHOOSE i \in 1..Len(s) : s[i] = c /\ \A j \in 1..(i - 1) : s[j] # c)

\* the places of p where a maximal run of names with the same prefix begins
RunStarts(p, c) == { i \in 1..Len(p) : i = 1 \/ PrefixUpTo(p[i], c) # PrefixUpTo(p[i - 1], c) }

\* the k-th maximal run of p
Run(p, c, k) ==
    LET starts == RunStarts(p, c)
        start(n) == CHOOSE i \in starts : Cardinality({ j \in starts : j < i }) = n - 1
    IN  SubSeq(p, start(k), IF k = Cardinality(starts) THEN Len(p) ELSE start(k + 1) - 1)

\* bundle b has one channel per name of run, in order, each with that one port
OneChannelPerPort(b, run) ==
    /\ Len(b.channels) = Len(run)
    /\ \A j \in 1..Len(run) : b.channels[j].ports = << run[j] >>

StripLast(s) == SubSeq(s, 1, Len(s) - 1)

\* what add_bundles_for_ports made of the list p is one bundle per maximal
\* run, or one bundle of all names when there is no separator; Named gives
\* the name of the bundle of a run
RunsBecomeBundles(Named(_, _)) ==
    lastOp.op = "add_bundles_for_ports" =>
        LET p == lastOp.p
            bl == _bundles[lastOp.g]
            c == SeparatorOf(p)
        IN  IF c = ""
            THEN Len(bl) = 1 /\ OneChannelPerPort(bl[1].bundle, p)
            ELSE /\ Len(bl) = Cardinality(RunStarts(p, c))
                 /\ \A k \in 1..Len(bl) :
                       /\ OneChannelPerPort(bl[k].bundle, Run(p, c, k))
                       /\ bl[k].bundle.name = Named(Run(p, c, k), c)

\* the two examples of C14
PortsExamples ==
    lastOp.op = "add_bundles_for_ports" =>
        LET p == lastOp.p
            bl == _bundles[lastOp.g]
        IN  /\ p = << << "a", "/", "1" >>, << "a", "/", "2" >>, << "a", "/", "3" >> >> =>
                  /\ Len(bl) = 1
                  /\ bl[1].bundle.name = << "a" >>
                  /\ [j \in 1..3 |-> bl[1].bundle.channels[j].name]
                        = << << "1" >>, << "2" >>, << "3" >> >>
            /\ p = << << "a", "/", "1" >>, << "b", "/", "1" >> >> =>
                  /\ Len(bl) = 2
                  /\ bl[1].bundle.name = << "a" >> /\ Len(bl[1].bundle.channels) = 1
                  /\ bl[2].bundle.name = << "b" >> /\ Len(bl[2].bundle.channels) = 1

\* the run's prefix up to and including the first separator, without the separator
NamedAfterRunPrefix(run, c) == StripLast(PrefixUpTo(run[1], c))

\* the same, unless the separator is ':' and every name of the run begins
\* with the first name's prefix up to and including its first '/'
NamedAfterCommonPrefix(run, c) ==
    IF /\ c = ":"
       /\ Contains(run[1], "/")
       /\ \A j \in 1..Len(run) :
             /\ Len(run[j]) >= Len(PrefixUpTo(run[1], "/"))
             /\ SubSeq(run[j], 1, Len(PrefixUpTo(run[1], "/"))) = PrefixUpTo(run[1], "/")
    THEN StripLast(PrefixUpTo(run[1], "/"))
    ELSE NamedAfterRunPrefix(run, c)

\* C14 (as stated): the separator is '/' if every name has one, else ':' if
\* every name has one, else none and the list becomes one bundle; with a
\* separator the bundles are the maximal runs of names with the same prefix
\* up to and including the first separator, in list order, one single-port
\* channel per name, each bundle named after the run's prefix without the
\* separator; [a/1,a/2,a/3] gives 'a' with channels 1,2,3 and [a/1,b/1]
\* gives 'a' and 'b'.
C14_RunsNamedAfterRunPrefix == RunsBecomeBundles(NamedAfterRunPrefix) /\ PortsExamples

\* C14 (amended): the same, except that with the separator ':' a run whose
\* names all begin with its first name's prefix up to and including the
\* first '/' gives a bundle named after that prefix, without the '/'.
C14_RunsNamedAfterCommonPrefix == RunsBecomeBundles(NamedAfterCommonPrefix) /\ PortsExamples

\* [a:x/1, a:x/2, b:x]: the separator is ':', the runs are a:x/1, a:x/2 and
\* b:x, and the bundles are named 'a:x' and 'b'
C14_Witness ==
    /\ lastOp.op = "add_bundles_for_ports"
    /\ lastOp.p = << << "a", ":", "x", "/", "1" >>, << "a", ":", "x", "/", "2" >>,
                     << "b", ":", "x" >> >>
    /\ Len(_bundles["External"]) = 2
    /\ _bundles["External"][1].bundle.name = << "a", ":", "x" >>
    /\ Len(_bundles["External"][1].bundle.channels) = 2
    /\ _bundles["External"][2].bundle.name = << "b" >>

C16_RemoveDuplicatesLeavesNoneRepresented ==
    [][ \A g \in Groups :
          (lastOp'.op = "remove_duplicates" /\ lastOp'.g = g) =>
            /\ \A i, j \in 1..Len(_bundles'[g]) :
                  ~Represents(_bundles'[g][j].bundle, _bundles'[g][i].bundle)
            /\ (lastOp.op = "remove_duplicates" /\ lastOp.g = g) => _bundles'[g] = _bundles[g]
            /\ _bundles[g] # <<>> => _bundles'[g] # <<>> ]_vars

\* remove_duplicates examined three records and removed two, one of them
\* represented only by the other: the bundle with three channels is left
C16_Witness ==
    /\ lastOp.op = "remove_duplicates" /\ lastOp.g = "g1"
    /\ Len(examined) = 3
    /\ Cardinality({ n \in 1..3 : examined[n].remove }) = 2
    /\ \E n \in 1..3 : examined[n].remove /\ examined[n].examined.bundle.id = 3
    /\ Len(_bundles["g1"]) = 1
    /\ _bundles["g1"][1].bundle.id = 6

\* the place in the session's route list of the route that IO io belongs to
RouteOfIO(session, io) ==
    CHOOSE i \in 1..Len(session.routes) : io \in IOsOfRoute(session.routes[i])

\* the IO gather takes from the route itself
PrimaryIO(r, inputs) == IF inputs THEN r.input.id ELSE r.output.id

\* C17: after gather, in Tracks and in Busses, the bundles of a route with a
\* smaller display order precede those of a route with a larger one, routes
\* with the same display order keep the order in which the session lists
\* them, the bundle of a route's own IO precedes those of its processors'
\* IOs, and no IO has two records
C17_RouteBundlesInDisplayOrder ==
    Gathered =>
        \A g \in { "Tracks", "Busses" } :
            \A k, l \in 1..Len(_bundles[g]) :
                k < l =>
                    LET session == SessionOf(lastOp.session)
                        rk == RouteOfIO(session, _bundles[g][k].io)
                        rl == RouteOfIO(session, _bundles[g][l].io)
                    IN  /\ session.routes[rk].order <= session.routes[rl].order
                        /\ session.routes[rk].order = session.routes[rl].order => rk <= rl
                        /\ rk = rl => _bundles[g][l].io # PrimaryIO(session.routes[rl], lastOp.inputs)
                        /\ _bundles[g][k].io # _bundles[g][l].io

\* the outputs of the audio session were gathered: in Busses the monitor
\* bus, listed third and displayed first, comes first with its two IOs, then
\* the two busses of equal display order as the session lists them; the main
\* outs of the first track did not add its output a second time
C17_Witness ==
    /\ Gathered /\ lastOp.session = AudioSession.id /\ ~lastOp.inputs
    /\ [k \in 1..Len(_bundles["Busses"]) |-> _bundles["Busses"][k].io]
          = << 132, 134, 122, 123, 125 >>
    /\ [k \in 1..Len(_bundles["Tracks"]) |-> _bundles["Tracks"][k].io] = << 115, 112 >>

\* the group holds a record of the bundle with this id
Holds(g, id) == \E k \in 1..Len(_bundles[g]) : _bundles[g][k].bundle.id = id

\* C18: after gather without duplicates and with the session's bundles,
\* whenever a user bundle and a non-user bundle of the session, both of the
\* requested direction, have the same set of ports, Hardware holds the user
\* bundle and not the other, wherever they are in the session's list; after
\* gather without the session's bundles Hardware holds no non-user bundle
\* of the session
C18_UserBundleKeptOverSessionBundle ==
    (Gathered /\ ~lastOp.allow_dups) =>
        LET bs == SessionOf(lastOp.session).bundles
        IN  IF lastOp.use_session_bundles
            THEN \A u, a \in 1..Len(bs) :
                    ( /\ bs[u].user /\ ~bs[a].user
                      /\ bs[u].bundle.ports_are_inputs = lastOp.inputs
                      /\ bs[a].bundle.ports_are_inputs = lastOp.inputs
                      /\ PortSet(bs[u].bundle) = PortSet(bs[a].bundle) )
                    => Holds("Hardware", bs[u].bundle.id) /\ ~Holds("Hardware", bs[a].bundle.id)
            ELSE \A a \in 1..Len(bs) : ~bs[a].user => ~Holds("Hardware", bs[a].bundle.id)

(***************************************************************************)
(* Properties of the scan of unclaimed ports (SpecGather).                 *)
(***************************************************************************)
\* the port names the engine gave the last gather
ScannedPorts ==
    Range(PortsToScan(SessionOf(lastOp.session), lastOp.type, lastOp.inputs))

\* a bundle that the earlier steps of the last gather put into a group has a
\* channel that is port p and nothing else
ClaimedAlone(p) ==
    \E g \in GatherGroups :
        \E k \in 1..Len(lastOp.scan.claimed[g]) :
            \E c \in 1..Len(lastOp.scan.claimed[g][k].bundle.channels) :
                lastOp.scan.claimed[g][k].bundle.channels[c].ports = << p >>

PendingBuckets == { "system", "program", "other" }

\* how often port p is in the pending list of a bucket for a data type
TimesPending(bucket, t, p) == CountIn(lastOp.scan.extra[bucket][t], LAMBDA q : q = p)

Pending(p) == \E bucket \in PendingBuckets, t \in Range(DataTypes) : TimesPending(bucket, t, p) > 0

\* the bundles made from pending ports: those of the groups that the scan
\* did not find there
Synthesized ==
    { r.bundle : r \in UNION { Range(_bundles[g]) \ Range(lastOp.scan.claimed[g]) :
                                g \in { "Hardware", "Misc", "External" } } }

HasSub(s, t) == \E i \in 0..(Len(s) - Len(t)) : SubSeq(s, i + 1, i + Len(t)) = t

\* the bucket of port p by the rules of C20, "" for none
RuleBucket(session, p) ==
    LET program == to_lower(PROGRAM_NAME)
        ports == { e \in Range(session.engine_ports) : e.name = p }
    IN  IF HasSub(p, MidiThroughDash) \/ HasSub(p, MidiThroughSpace) THEN ""
        ELSE IF HasSub(to_lower(p), to_lower(Monitor)) /\ HasSub(to_lower(p), program) THEN ""
        ELSE IF \A e \in ports : ~e.exists \/ e.data_type = NIL \/ e.hidden THEN ""
        ELSE IF Len(p) > Len(program) /\ SubSeq(p, 1, Len(program) + 1) = program \o << ":" >>
             THEN "program"
        ELSE IF \E e \in ports : e.physical THEN "system"
        ELSE "other"

\* C19: in gather without duplicates, a port that a bundle placed by the
\* earlier steps offers as a channel of its own is in no pending list and is
\* not a port of a bundle made from pending ports; in gather with duplicates
\* such a port is pending whenever the name and flag rules let it through
C19_ClaimedPortsNotPending ==
    Gathered =>
        \A p \in ScannedPorts :
            ClaimedAlone(p) =>
                IF ~lastOp.allow_dups
                THEN /\ ~Pending(p)
                     /\ \A b \in Synthesized : p \notin PortSet(b)
                ELSE RuleBucket(SessionOf(lastOp.session), p) # "" => Pending(p)

\* the inputs of the MIDI session were gathered without duplicates: the
\* hardware port s:p1, which session bundles offer, is not pending, while
\* hardware ports that no bundle offers are
C19_Witness ==
    /\ Gathered /\ lastOp.session = MidiSession.id /\ lastOp.inputs /\ ~lastOp.allow_dups
    /\ Name("s", "p", "1") \in ScannedPorts
    /\ ClaimedAlone(Name("s", "p", "1"))
    /\ RuleBucket(MidiSession, Name("s", "p", "1")) = "system"
    /\ ~Pending(Name("s", "p", "1"))
    /\ Pending(Name("s", "m", "1"))
    /\ Synthesized # {}

\* C20: every port of the scan that survives the coverage check is pending
\* exactly once, in the bucket the rules give it and under its data type,
\* and is not pending at all when the rules give it none: vanished, untyped
\* and hidden ports, Midi-Through names and monitor names of the program go
\* in none, then the program's name with ':' in front decides for 'program'
\* before the physical flag decides for 'system', and 'other' takes the rest
C20_OneBucketByPriority ==
    Gathered =>
        \A p \in ScannedPorts :
            LET session == SessionOf(lastOp.session)
                bucket == IF lastOp.allow_dups \/ ~ClaimedAlone(p)
                          THEN RuleBucket(session, p)
                          ELSE ""
            IN  \A b \in PendingBuckets, t \in Range(DataTypes) :
                    TimesPending(b, t, p) =
                        IF b = bucket /\ t = EnginePort(session, p).data_type THEN 1 ELSE 0

\* the inputs of the audio session were gathered: the physical port a:p9 of
\* the program is pending for 'program', the hardware ports for 'system',
\* the hidden port and the monitor bus's port for nothing
C20_Witness ==
    /\ Gathered /\ lastOp.session = AudioSession.id /\ lastOp.inputs /\ ~lastOp.allow_dups
    /\ lastOp.type = AUDIO
    /\ lastOp.scan.extra["program"][AUDIO] = << Name("a", "p", "9") >>
    /\ Len(lastOp.scan.extra["system"][AUDIO]) = 3
    /\ { Name("a", "h", "1"), << "a", ":", "M", "o", "/", "1" >> } \subseteq ScannedPorts
    /\ ~Pending(Name("a", "h", "1"))
    /\ ~Pending(<< "a", ":", "M", "o", "/", "1" >>)

(***************************************************************************)
(* Properties of the type filter of gather (SpecGather).                   *)
(***************************************************************************)
\* the groups of the routes and of the IO plugins
TypedGroups == { "Tracks", "Busses", "I/O Pre", "I/O Post" }

\* group g holds the bundle of IO io, or add_bundle refused it because g
\* already held a bundle with the same ports
Candidate(g, io) ==
    \E k \in 1..Len(_bundles[g]) :
        \/ _bundles[g][k].io = io.id /\ _bundles[g][k].bundle = io.bundle
        \/ has_same_ports(_bundles[g][k].bundle, io.bundle)

\* the IOs gather collects from route r: the route's own IO of the gathered
\* side and the IOs of that side of its IO processors
CollectedIOs(r, inputs) ==
    { IF inputs THEN r.input ELSE r.output }
    \cup { io \in { IF inputs THEN r.processors[i].input ELSE r.processors[i].output :
                      i \in { k \in 1..Len(r.processors) : r.processors[k].iop } } :
               io.id # NullIO.id }

\* the IO of the gathered side of an IO plugin
PlugIO(iop, inputs) == IF inputs THEN iop.input ELSE iop.output

\* C21: after gather for AUDIO or MIDI every bundle in Tracks, Busses,
\* I/O Pre and I/O Post has at least one channel of that type; after any
\* gather no record of I/O Pre or I/O Post belongs to an IO plugin whose IO
\* has no ports; after gather for NIL the bundle of every IO collected from
\* the routes (all routes, except the monitor bus on the input side) was
\* offered to the route's group, and the bundle of every IO plugin with at
\* least one port was offered to I/O Pre or I/O Post as its flag says
C21_TypeFilterOnRoutesAndIOPlugs ==
    Gathered =>
        LET session == SessionOf(lastOp.session)
            type == lastOp.type
            inputs == lastOp.inputs
        IN  /\ type # NIL =>
                   \A g \in TypedGroups : \A k \in 1..Len(_bundles[g]) :
                       n_of(_bundles[g][k].bundle, type) > 0
            /\ \A i \in 1..Len(session.io_plugs) :
                   LET io == PlugIO(session.io_plugs[i], inputs)
                   IN  io.n_ports[AUDIO] + io.n_ports[MIDI] = 0 =>
                          \A g \in { "I/O Pre", "I/O Post" } : \A k \in 1..Len(_bundles[g]) :
                              /\ _bundles[g][k].io # io.id
                              /\ _bundles[g][k].bundle.id # io.bundle.id
            /\ type = NIL =>
                   /\ \A i \in 1..Len(session.routes) :
                          LET r == session.routes[i]
                          IN  ~(inputs /\ r.is_monitor) =>
                                 \A io \in CollectedIOs(r, inputs) : Candidate(GroupOfRoute(r), io)
                   /\ \A i \in 1..Len(session.io_plugs) :
                          LET iop == session.io_plugs[i]
                              io == PlugIO(iop, inputs)
                          IN  io.n_ports[AUDIO] + io.n_ports[MIDI] > 0 =>
                                 Candidate(IF iop.is_pre THEN "I/O Pre" ELSE "I/O Post", io)

\* the MIDI session was gathered for MIDI: the audio bus and the audio IO
\* plugin are left out, the MIDI track, the MIDI IO plugin and the IO plugin
\* with a port of each type are in
C21_Witness ==
    /\ Gathered /\ lastOp.session = MidiSession.id /\ lastOp.type = MIDI
    /\ _bundles["Busses"] = <<>>
    /\ Len(_bundles["Tracks"]) = 1
    /\ Len(_bundles["I/O Post"]) = 1
    /\ Len(_bundles["I/O Pre"]) = 1
    /\ n_of(_bundles["I/O Pre"][1].bundle, AUDIO) = 1
    /\ Len(MidiSession.io_plugs) = 3

(***************************************************************************)
(* Nothing is pending outside a suspension (SpecList).                     *)
(***************************************************************************)
\* no change flag and no bundle-change payload is pending
NothingPending == ~_pending_change /\ _pending_bundle_change = 0

\* the emit_bundle_changed calls that bundle b's Changed leads to: one per
\* connection of a group to the bundle and of the list to the group
BundleChangeRequests(b) ==
    SeqSum([k \in 1..Len(GroupOrder) |->
               Subscriptions(GroupOrder[k], b) * _bundle_changed_connections[GroupOrder[k]]])

\* C22: whenever the list is not suspended no change flag and no
\* bundle-change payload is pending; a call made while the list is not
\* suspended fires every notification it requests itself (add_group one
\* Changed, a group's clear one Changed per connection of the list to the
\* group, a bundle's change one BundleChanged per connection) and
\* resume_signals, called while the list is not suspended, fires nothing
C22_NothingPendingUnlessSuspended ==
    /\ [](~_signals_suspended => NothingPending)
    /\ [][ ~_signals_suspended =>
             /\ lastOp'.op = "resume_signals" => emitted' = <<>>
             /\ lastOp'.op = "add_group" => NChanged(emitted', LIST) = 1
             /\ lastOp'.op = "clear" =>
                    NChanged(emitted', LIST) = _changed_connections[lastOp'.g]
             /\ lastOp'.op = "bundle.Changed" =>
                    NBundleChanged(emitted', LIST) = BundleChangeRequests(TestBundle(lastOp'.b))
             /\ lastOp'.op # "suspend_signals" => NothingPending' ]_vars

\* resume_signals was called on a list that was not suspended and had a
\* group with a bundle connected: nothing is pending and nothing was fired
C22_Witness ==
    /\ lastOp.op = "resume_signals"
    /\ window = NoWindow
    /\ emitted = <<>>
    /\ ~_signals_suspended /\ NothingPending
    /\ \E g \in ExternalGroups : _bundle_changed_connections[g] > 0 /\ _bundles[g] # <<>>

(***************************************************************************)
(* The groups of a cleared list (SpecList).                                *)
(***************************************************************************)
\* the calls in which a group or a bundle fires a signal of its own
GroupCalls == { "add_bundle", "remove_bundle", "clear", "bundle.Changed" }

\* C23: once PortGroupList::clear () (or the null-session gather, which is
\* that clear) has emptied the list and as long as no group is added again,
\* a Changed or a BundleChanged of a group that outlived the clear fires
\* neither signal of the list and, while the list is suspended, sets
\* neither of its pending members
C23_ClearedGroupNoLongerDrivesList ==
    [][ (_groups = <<>> /\ lastOp'.op \in GroupCalls) =>
          /\ NChanged(emitted', LIST) = 0
          /\ NBundleChanged(emitted', LIST) = 0
          /\ _pending_change' = _pending_change
          /\ _pending_bundle_change' = _pending_bundle_change ]_vars

(***************************************************************************)
(* PortGroupList::remove_bundle (SpecRemove).                              *)
(***************************************************************************)
\* C24: after PortGroupList::remove_bundle (b) no group of the list holds a
\* record of b itself, however often b had been added to a group, and the
\* list holds the groups it held before the call, those left without
\* bundles included
C24_RemovedBundleIsInNoGroup ==
    [][ lastOp'.op = "PortGroupList::remove_bundle" =>
          /\ \A g \in Range(_groups') : RecordsOf(_bundles'[g], lastOp'.b) = 0
          /\ _groups' = _groups ]_vars

====
